---- MODULE Spec2Model ----
(***************************************************************************)
(* Model of the Cobertura coverage parser (src/src/parser.rs,              *)
(* src/src/error.rs, src/src/lib.rs): the event classifier, the attribute  *)
(* extractor, the ParserInner state machine and the Parser facade          *)
(* (consume_event, parse, reset).                                          *)
(***************************************************************************)
EXTENDS Integers, Sequences, FiniteSets, TLC

VARIABLES
    inner,      \* Parser.inner: <<>> is None, <<p>> is Some(p)
    ret,        \* what the last facade call returned
    fed,        \* history: the events consume_event accepted since its last final answer
                \* or reset; after a completed document, the events of that document
    lastEv,     \* history: the last token or event the last call looked at
    lastState,  \* history: the parser's position when it looked at it
    served      \* history: this instance has handed out a document before

vars == <<inner, ret, fed, lastEv, lastState, served>>

(***************************************************************************)
(* Bounds of the exploration.                                              *)
(***************************************************************************)
\* opening events (start tag, self-closing tag, text) accepted per document
\* after its first descent
MaxExtra == 0

(***************************************************************************)
(* Small helpers.                                                          *)
(***************************************************************************)
None == <<>>

Some(v) == <<v>>

IsSome(o) == o # <<>>

Unwrap(o) == o[1]

RECURSIVE Reverse(_)
Reverse(s) == IF s = <<>> THEN <<>> ELSE Append(Reverse(Tail(s)), Head(s))

SeqRange(s) == {s[i] : i \in 1..Len(s)}

(***************************************************************************)
(* lib.rs: the data model and its Default values.                          *)
(***************************************************************************)
DefaultCoverage ==
    [sources |-> <<>>, packages |-> <<>>, line_rate |-> 0, branch_rate |-> 0,
     lines_covered |-> 0, lines_valid |-> 0, branches_covered |-> 0,
     branches_valid |-> 0, complexity |-> 0, version |-> "", timestamp |-> 0]

DefaultPackage ==
    [classes |-> <<>>, name |-> "", line_rate |-> 0, branch_rate |-> 0, complexity |-> 0]

DefaultClass ==
    [methods |-> <<>>, lines |-> <<>>, name |-> "", file_name |-> "",
     line_rate |-> 0, branch_rate |-> 0, complexity |-> 0]

DefaultMethod ==
    [lines |-> <<>>, name |-> "", signature |-> "", line_rate |-> 0, branch_rate |-> 0]

DefaultLine ==
    [conditions |-> <<>>, number |-> 0, hits |-> 0, branch |-> FALSE,
     condition_coverage |-> None]

DefaultCondition == [number |-> 0, type |-> "", coverage |-> ""]

Source(data) == [data |-> data]

(***************************************************************************)
(* error.rs: ParserError and BasicEvent.  Every error is a record of the   *)
(* same shape; the fields a variant does not carry are left empty.         *)
(***************************************************************************)
NoGot == [kind |-> "", name |-> ""]

NoError ==
    [kind |-> "none", got |-> NoGot, expected |-> <<>>, expected_ends |-> <<>>, attr |-> ""]

\* impl From<&FilteredEvent> for BasicEvent (and the BytesStart / BytesEnd impls)
BasicEvent(event) ==
    CASE event.type = "Start" -> [kind |-> "Start", name |-> event.name]
      [] event.type = "Text" -> [kind |-> "Text", name |-> ""]
      [] event.type = "End" -> [kind |-> "End", name |-> event.name]
      [] event.type = "AttributesOnly" -> [kind |-> "Start", name |-> event.name]

\* ParserError::start building the variant of ParserError::end's name
ErrorStartAsEnd(event, expected) ==
    [NoError EXCEPT !.kind = "ExpectedEnd", !.got = BasicEvent(event),
                    !.expected = expected]

\* ParserError::start
ErrorStart(event, expected) ==
    [NoError EXCEPT !.kind = "ExpectedStart", !.got = BasicEvent(event),
                    !.expected = expected]

\* ParserError::end
ErrorEnd(event, expected) ==
    [NoError EXCEPT !.kind = "ExpectedStart", !.got = BasicEvent(event),
                    !.expected = expected]

\* ParserError::start_end
ErrorStartEnd(event, starts, ends) ==
    [NoError EXCEPT !.kind = "ExpectedStartOrEnd", !.got = BasicEvent(event),
                    !.expected = starts, !.expected_ends = ends]

FailedToParseAttribute == [NoError EXCEPT !.kind = "FailedToParseAttribute"]

InvalidValueForAttribute(name) ==
    [NoError EXCEPT !.kind = "InvalidValueForAttribute", !.attr = name]

MissingRequiredAttribute(name) ==
    [NoError EXCEPT !.kind = "MissingRequiredAttribute", !.attr = name]

UnexpectedEof == [NoError EXCEPT !.kind = "UnexpectedEof"]

(***************************************************************************)
(* Attribute texts and their conversions.  An attribute is                 *)
(* [key, value, ok]; ok = FALSE is an item for which the attribute         *)
(* iterator yields Err (unreadable syntax, or a repeated key).             *)
(***************************************************************************)
\* Attribute::unescape_value: None when the text holds an unknown entity
UnescapeValue(v) ==
    CASE v = "&bad;" -> None
      [] v = "&lt;1" -> Some("<1")
      [] OTHER -> Some(v)

\* str::parse::<f64>, in tenths
ParseF64(v) ==
    CASE v = "0.5" -> Some(5)
      [] v = "1" -> Some(10)
      [] v = "2" -> Some(20)
      [] OTHER -> None

\* str::parse::<usize> and str::parse::<u64>
ParseUint(v) ==
    CASE v = "1" -> Some(1)
      [] v = "2" -> Some(2)
      [] OTHER -> None

\* str::parse::<bool>
ParseBool(v) ==
    CASE v = "true" -> Some(TRUE)
      [] v = "false" -> Some(FALSE)
      [] OTHER -> None

\* value.parse::<$ty>() on the unescaped text
ParseAs(ty, v) ==
    CASE ty = "f64" -> ParseF64(v)
      [] ty = "usize" -> ParseUint(v)
      [] ty = "u64" -> ParseUint(v)
      [] ty = "bool" -> ParseBool(v)
      [] OTHER -> Some(v)

Desc(n, t, f) == [name |-> n, ty |-> t, field |-> f]

CoverageDescs ==
    << Desc("line-rate", "f64", "line_rate"),
       Desc("branch-rate", "f64", "branch_rate"),
       Desc("lines-covered", "usize", "lines_covered"),
       Desc("lines-valid", "usize", "lines_valid"),
       Desc("branches-covered", "usize", "branches_covered"),
       Desc("branches-valid", "usize", "branches_valid"),
       Desc("complexity", "f64", "complexity"),
       Desc("version", "String", "version"),
       Desc("timestamp", "u64", "timestamp") >>

PackageDescs ==
    << Desc("name", "String", "name"),
       Desc("line-rate", "f64", "line_rate"),
       Desc("branch-rate", "f64", "branch_rate"),
       Desc("complexity", "f64", "complexity") >>

ClassDescs ==
    << Desc("name", "String", "name"),
       Desc("filename", "PathBuf", "file_name"),
       Desc("line-rate", "f64", "line_rate"),
       Desc("branch-rate", "f64", "branch_rate"),
       Desc("complexity", "f64", "complexity") >>

MethodDescs ==
    << Desc("name", "String", "name"),
       Desc("signature", "String", "signature"),
       Desc("line-rate", "f64", "line_rate"),
       Desc("branch-rate", "f64", "branch_rate") >>

ConditionDescs ==
    << Desc("type", "String", "type"),
       Desc("coverage", "String", "coverage") >>

(***************************************************************************)
(* parser.rs: set_required_attributes!.  The result is                     *)
(* [tag, obj, err] with tag "ok", "err" or "panic".                        *)
(***************************************************************************)
AttrOk(obj) == [tag |-> "ok", obj |-> obj, err |-> NoError]

AttrErr(obj, e) == [tag |-> "err", obj |-> obj, err |-> e]

AttrPanic(obj) == [tag |-> "panic", obj |-> obj, err |-> NoError]

\* the binding loop letting a text of the wrong type pass as if the attribute were absent
RECURSIVE BindAttributeLenient(_, _, _, _)
BindAttributeLenient(value, key, descs, opt) ==
    IF descs = <<>> THEN AttrOk(opt)
    ELSE LET d == Head(descs) IN
         IF key = d.name /\ IsSome(ParseAs(d.ty, value))
         THEN BindAttributeLenient(value, key, Tail(descs),
                                   [opt EXCEPT ![d.field] = Some(Unwrap(ParseAs(d.ty, value)))])
         ELSE BindAttributeLenient(value, key, Tail(descs), opt)

\* the inner $( if name == $str_name { $field = Some(value.parse()...?) } )*
RECURSIVE BindAttribute(_, _, _, _)
BindAttribute(value, key, descs, opt) ==
    IF descs = <<>> THEN AttrOk(opt)
    ELSE LET d == Head(descs) IN
         IF key = d.name
         THEN LET parsed == ParseAs(d.ty, value) IN
              IF IsSome(parsed)
              THEN BindAttribute(value, key, Tail(descs),
                                 [opt EXCEPT ![d.field] = Some(Unwrap(parsed))])
              ELSE AttrErr(opt, InvalidValueForAttribute(d.name))
         ELSE BindAttribute(value, key, Tail(descs), opt)

\* for attribute in $attributes { ... }
RECURSIVE ScanAttributes(_, _, _)
ScanAttributes(attributes, descs, opt) ==
    IF attributes = <<>> THEN AttrOk(opt)
    ELSE LET a == Head(attributes)
             Bound(r) ==
                 IF r.tag # "ok" THEN r
                 ELSE ScanAttributes(Tail(attributes), descs, r.obj)
             Unescaped(value) ==
                 IF ~IsSome(value) THEN AttrPanic(opt)
                 ELSE Bound(BindAttribute(Unwrap(value), a.key, descs, opt))
         IN IF ~a.ok THEN AttrErr(opt, FailedToParseAttribute)
            ELSE Unescaped(UnescapeValue(a.value))

\* the trailing assignments keeping the default of a field that was not bound
RECURSIVE AssignRequiredDefaulting(_, _, _)
AssignRequiredDefaulting(set_on, descs, opt) ==
    IF descs = <<>> THEN AttrOk(set_on)
    ELSE LET d == Head(descs) IN
         IF IsSome(opt[d.field])
         THEN AssignRequiredDefaulting([set_on EXCEPT ![d.field] = Unwrap(opt[d.field])],
                                       Tail(descs), opt)
         ELSE AssignRequiredDefaulting(set_on, Tail(descs), opt)

\* the trailing $( if let Some(value) = $field { set } else { return Err(Missing) } )*
RECURSIVE AssignRequired(_, _, _)
AssignRequired(set_on, descs, opt) ==
    IF descs = <<>> THEN AttrOk(set_on)
    ELSE LET d == Head(descs) IN
         IF IsSome(opt[d.field])
         THEN AssignRequired([set_on EXCEPT ![d.field] = Unwrap(opt[d.field])],
                             Tail(descs), opt)
         ELSE AttrErr(set_on, MissingRequiredAttribute(d.name))

set_required_attributes(set_on, attributes, descs) ==
    LET fields == {descs[i].field : i \in 1..Len(descs)}
        Scanned(scan) ==
            IF scan.tag # "ok" THEN [scan EXCEPT !.obj = set_on]
            ELSE AssignRequired(set_on, descs, scan.obj)
    IN Scanned(ScanAttributes(attributes, descs, [f \in fields |-> None]))

(***************************************************************************)
(* parser.rs: ParserInner and its per-state handlers.  A handler takes the *)
(* accumulator p and the event and yields [tag, state, err, p]: tag "ok"   *)
(* with the next State, "err" with the ParserError, or "panic"; p carries  *)
(* the writes made through the handler's &mut arguments.                   *)
(***************************************************************************)
HOk(p, state) == [tag |-> "ok", state |-> state, err |-> NoError, p |-> p]

HErr(p, e) == [tag |-> "err", state |-> p.state, err |-> e, p |-> p]

HPanic(p) == [tag |-> "panic", state |-> p.state, err |-> NoError, p |-> p]

\* transition!(basic(..)): the target of the first table entry whose name matches
RECURSIVE TransitionTarget(_, _)
TransitionTarget(name, table) ==
    IF table = <<>> THEN None
    ELSE IF name = Head(table)[1] THEN Some(Head(table)[2])
    ELSE TransitionTarget(name, Tail(table))

TableNames(table) == [i \in 1..Len(table) |-> table[i][1]]

\* transition!(basic_start(..), ...) with no `with` operation
basic_start(p, event, table) ==
    LET to == TransitionTarget(event.name, table) IN
    IF IsSome(to) THEN HOk(p, Unwrap(to))
    ELSE HErr(p, ErrorStart(event, TableNames(table)))

\* transition!(basic_end(..), ...); pushed is the accumulator after the `with` operation
basic_end(p, pushed, event, table) ==
    LET to == TransitionTarget(event.name, table) IN
    IF IsSome(to) THEN HOk(pushed, Unwrap(to))
    ELSE HErr(p, ErrorEnd(event, TableNames(table)))

\* in_coverage with the start tag table used for self-closing tags too
in_coverageSameMapping(p, event) ==
    CASE event.type \in {"Start", "AttributesOnly"} ->
            basic_start(p, event, << <<"sources", "ParsingSources">>,
                                     <<"packages", "ParsingPackages">> >>)
      [] event.type = "End" ->
            basic_end(p, p, event, << <<"coverage", "End">> >>)
      [] OTHER ->
            HErr(p, ErrorStartEnd(event, <<"sources", "packages">>, <<"coverage">>))

\* in_coverage, had a self-closing sources tag led where its start tag leads
in_coverageSourcesDescend(p, event) ==
    CASE event.type = "Start" ->
            basic_start(p, event, << <<"sources", "ParsingSources">>,
                                     <<"packages", "ParsingPackages">> >>)
      [] event.type = "End" ->
            basic_end(p, p, event, << <<"coverage", "End">> >>)
      [] event.type = "AttributesOnly" ->
            basic_start(p, event, << <<"sources", "ParsingSources">>,
                                     <<"packages", "ParsingCoverage">> >>)
      [] OTHER ->
            HErr(p, ErrorStartEnd(event, <<"sources", "packages">>, <<"coverage">>))

in_coverage(p, event) ==
    CASE event.type = "Start" ->
            basic_start(p, event, << <<"sources", "ParsingSources">>,
                                     <<"packages", "ParsingPackages">> >>)
      [] event.type = "End" ->
            basic_end(p, p, event, << <<"coverage", "End">> >>)
      [] event.type = "AttributesOnly" ->
            basic_start(p, event, << <<"sources", "ParsingCoverage">>,
                                     <<"packages", "ParsingCoverage">> >>)
      [] OTHER ->
            HErr(p, ErrorStartEnd(event, <<"sources", "packages">>, <<"coverage">>))

\* in_sources, had it let a text pass
in_sourcesSkipsText(p, event) ==
    CASE event.type = "Start" ->
            basic_start(p, event, << <<"source", "ParsingSource">> >>)
      [] event.type = "End" ->
            basic_end(p, p, event, << <<"sources", "ParsingCoverage">> >>)
      [] event.type = "Text" -> HOk(p, "ParsingSources")
      [] OTHER ->
            HErr(p, ErrorStartEnd(event, <<"source">>, <<"sources">>))

in_sources(p, event) ==
    CASE event.type = "Start" ->
            basic_start(p, event, << <<"source", "ParsingSource">> >>)
      [] event.type = "End" ->
            basic_end(p, p, event, << <<"sources", "ParsingCoverage">> >>)
      [] OTHER ->
            HErr(p, ErrorStartEnd(event, <<"source">>, <<"sources">>))

\* std::str::from_utf8(text).map(String::from).unwrap_or(String::new())
TextPayload(text) == IF text = "\\xff" THEN "" ELSE text

in_source(p, event) ==
    CASE event.type = "Text" ->
            HOk([p EXCEPT !.coverage.sources = Append(@, Source(TextPayload(event.text)))],
                "ParsingSource")
      [] event.type = "End" ->
            basic_end(p, p, event, << <<"source", "ParsingSources">> >>)
      [] OTHER ->
            HErr(p, ErrorStartEnd(event, <<"text">>, <<"source">>))

\* the result of set_required_attributes! on one slot of the accumulator
BindSlot(p, slot, r, state) ==
    CASE r.tag = "ok" -> HOk([p EXCEPT ![slot] = r.obj], state)
      [] r.tag = "err" -> HErr([p EXCEPT ![slot] = r.obj], r.err)
      [] OTHER -> HPanic(p)

in_packages(p, event) ==
    CASE event.type = "Start" ->
            IF event.name = "package"
            THEN BindSlot(p, "package",
                          set_required_attributes(p.package, event.attrs, PackageDescs),
                          "ParsingPackage")
            ELSE HErr(p, ErrorStart(event, <<"package">>))
      [] event.type = "End" ->
            basic_end(p, p, event, << <<"packages", "ParsingCoverage">> >>)
      [] OTHER ->
            HErr(p, ErrorStartEnd(event, <<"package">>, <<"packages">>))

\* in_package putting a closed package in front of the earlier ones
in_packagePrepends(p, event) ==
    CASE event.type = "Start" ->
            basic_start(p, event, << <<"classes", "ParsingClasses">> >>)
      [] event.type = "End" ->
            basic_end([p EXCEPT !.package = DefaultPackage],
                      [p EXCEPT !.package = DefaultPackage,
                                !.coverage.packages = <<p.package>> \o @],
                      event, << <<"package", "ParsingPackages">> >>)
      [] event.type = "AttributesOnly" ->
            basic_start(p, event, << <<"classes", "ParsingPackage">> >>)
      [] OTHER ->
            HErr(p, ErrorStartEnd(event, <<"classes">>, <<"package">>))

\* in_package, had it added the closed package's complexity to the root's
in_packageRecomputes(p, event) ==
    CASE event.type = "Start" ->
            basic_start(p, event, << <<"classes", "ParsingClasses">> >>)
      [] event.type = "End" ->
            LET taken == [p EXCEPT !.package = DefaultPackage] IN
            basic_end(taken,
                      [taken EXCEPT !.coverage.packages = Append(@, p.package),
                                    !.coverage.complexity = @ + p.package.complexity],
                      event, << <<"package", "ParsingPackages">> >>)
      [] event.type = "AttributesOnly" ->
            basic_start(p, event, << <<"classes", "ParsingPackage">> >>)
      [] OTHER ->
            HErr(p, ErrorStartEnd(event, <<"classes">>, <<"package">>))

in_package(p, event) ==
    CASE event.type = "Start" ->
            basic_start(p, event, << <<"classes", "ParsingClasses">> >>)
      [] event.type = "End" ->
            LET taken == [p EXCEPT !.package = DefaultPackage] IN
            basic_end(taken,
                      [taken EXCEPT !.coverage.packages = Append(@, p.package)],
                      event, << <<"package", "ParsingPackages">> >>)
      [] event.type = "AttributesOnly" ->
            basic_start(p, event, << <<"classes", "ParsingPackage">> >>)
      [] OTHER ->
            HErr(p, ErrorStartEnd(event, <<"classes">>, <<"package">>))

in_classes(p, event) ==
    CASE event.type = "Start" ->
            IF event.name = "class"
            THEN BindSlot(p, "class",
                          set_required_attributes(p.class, event.attrs, ClassDescs),
                          "ParsingClass")
            ELSE HErr(p, ErrorStart(event, <<"class">>))
      [] event.type = "End" ->
            LET taken == [p EXCEPT !.class = DefaultClass] IN
            basic_end(taken,
                      [taken EXCEPT !.package.classes = Append(@, p.class)],
                      event, << <<"classes", "ParsingPackage">> >>)
      [] OTHER ->
            HErr(p, ErrorStartEnd(event, <<"class">>, <<"classes">>))

in_class(p, event) ==
    CASE event.type = "Start" ->
            basic_start(p, event, << <<"methods", "ParsingMethods">>,
                                     <<"lines", "ParsingClassLines">> >>)
      [] event.type = "End" ->
            basic_end(p, p, event, << <<"class", "ParsingClasses">> >>)
      [] event.type = "AttributesOnly" ->
            basic_start(p, event, << <<"methods", "ParsingClass">>,
                                     <<"lines", "ParsingClass">> >>)
      [] OTHER ->
            HErr(p, ErrorStartEnd(event, <<"methods", "lines">>, <<"class">>))

in_methods(p, event) ==
    CASE event.type = "Start" ->
            IF event.name = "method"
            THEN BindSlot(p, "method",
                          set_required_attributes(p.method, event.attrs, MethodDescs),
                          "ParsingMethod")
            ELSE HErr(p, ErrorStart(event, <<"method">>))
      [] event.type = "End" ->
            LET taken == [p EXCEPT !.method = DefaultMethod] IN
            basic_end(taken,
                      [taken EXCEPT !.class.methods = Append(@, p.method)],
                      event, << <<"methods", "ParsingClass">> >>)
      [] OTHER ->
            HErr(p, ErrorStartEnd(event, <<"method">>, <<"methods">>))

in_method(p, event) ==
    CASE event.type = "Start" ->
            basic_start(p, event, << <<"lines", "ParsingMethodLines">> >>)
      [] event.type = "End" ->
            basic_end(p, p, event, << <<"method", "ParsingMethods">> >>)
      [] OTHER ->
            HErr(p, ErrorStartEnd(event, <<"lines">>, <<"method">>))

\* the `for attribute in attributes` loop of load_lines; acc holds the line
\* (branch is written in place) and the three local Options
RECURSIVE LoadLineAttributes(_, _)
LoadLineAttributes(attributes, acc) ==
    IF attributes = <<>> THEN AttrOk(acc)
    ELSE LET a == Head(attributes) IN
         IF ~a.ok THEN AttrErr(acc, FailedToParseAttribute)
         ELSE LET value == UnescapeValue(a.value) IN
              IF ~IsSome(value) THEN AttrPanic(acc)
              ELSE LET v == Unwrap(value)
                       num == ParseUint(v)
                       bool == ParseBool(v)
                   IN
                   CASE a.key = "number" ->
                          IF IsSome(num)
                          THEN LoadLineAttributes(Tail(attributes), [acc EXCEPT !.number = num])
                          ELSE AttrErr(acc, InvalidValueForAttribute(a.key))
                     [] a.key = "hits" ->
                          IF IsSome(num)
                          THEN LoadLineAttributes(Tail(attributes), [acc EXCEPT !.hits = num])
                          ELSE AttrErr(acc, InvalidValueForAttribute(a.key))
                     [] a.key = "branch" ->
                          IF IsSome(bool)
                          THEN LoadLineAttributes(Tail(attributes),
                                                  [acc EXCEPT !.line.branch = Unwrap(bool)])
                          ELSE AttrErr(acc, InvalidValueForAttribute(a.key))
                     [] a.key = "condition-coverage" ->
                          LoadLineAttributes(Tail(attributes),
                                             [acc EXCEPT !.condition_coverage = Some(v)])
                     [] OTHER -> LoadLineAttributes(Tail(attributes), acc)

\* the load_lines closure of ParserInner::lines, on the in-progress line
load_lines(line, event) ==
    IF event.name # "line" THEN AttrErr(line, ErrorStart(event, <<"line">>))
    ELSE LET Assigned(acc) ==
                 IF ~IsSome(acc.number)
                 THEN AttrErr(acc.line, MissingRequiredAttribute("number"))
                 ELSE IF ~IsSome(acc.hits)
                 THEN AttrErr([acc.line EXCEPT !.number = Unwrap(acc.number)],
                              MissingRequiredAttribute("hits"))
                 ELSE AttrOk([acc.line EXCEPT !.number = Unwrap(acc.number),
                                              !.hits = Unwrap(acc.hits),
                                              !.condition_coverage = acc.condition_coverage])
             Scanned(scan) ==
                 IF scan.tag # "ok" THEN [scan EXCEPT !.obj = scan.obj.line]
                 ELSE Assigned(scan.obj)
         IN Scanned(LoadLineAttributes(event.attrs,
                        [line |-> line, number |-> None, hits |-> None,
                         condition_coverage |-> None]))

\* ParserInner::lines, had End(lines) left the line slot where it is
linesKeepsSlot(p, owner, event, on_attr_only, on_list, on_end) ==
    CASE event.type = "Start" ->
            BindSlot(p, "line", load_lines(p.line, event), on_list)
      [] event.type = "AttributesOnly" ->
            LET Loaded(r) ==
                    IF r.tag = "ok"
                    THEN HOk([p EXCEPT ![owner].lines = Append(@, r.obj),
                                       !.line = DefaultLine],
                             on_attr_only)
                    ELSE BindSlot(p, "line", r, on_attr_only)
            IN Loaded(load_lines(p.line, event))
      [] event.type = "End" ->
            IF event.name = "lines"
            THEN HOk(p, on_end)
            ELSE HErr(p, ErrorEnd(event, <<"lines">>))
      [] OTHER ->
            HErr(p, ErrorStartEnd(event, <<"line">>, <<"lines">>))

\* ParserInner::lines; owner is the slot ("class" or "method") whose lines are extended
lines(p, owner, event, on_attr_only, on_list, on_end) ==
    CASE event.type = "Start" ->
            BindSlot(p, "line", load_lines(p.line, event), on_list)
      [] event.type = "AttributesOnly" ->
            LET Loaded(r) ==
                    IF r.tag = "ok"
                    THEN HOk([p EXCEPT ![owner].lines = Append(@, r.obj),
                                       !.line = DefaultLine],
                             on_attr_only)
                    ELSE BindSlot(p, "line", r, on_attr_only)
            IN Loaded(load_lines(p.line, event))
      [] event.type = "End" ->
            IF event.name = "lines"
            THEN HOk([p EXCEPT ![owner].lines = Append(@, p.line), !.line = DefaultLine],
                     on_end)
            ELSE HErr(p, ErrorEnd(event, <<"lines">>))
      [] OTHER ->
            HErr(p, ErrorStartEnd(event, <<"line">>, <<"lines">>))

\* in_method_lines, had End(lines) returned to the class
in_method_linesToClass(p, event) ==
    lines(p, "method", event, "ParsingMethodLines", "ParsingMethodLine", "ParsingClass")

in_method_lines(p, event) ==
    lines(p, "method", event, "ParsingMethodLines", "ParsingMethodLine", "ParsingMethod")

in_class_lines(p, event) ==
    lines(p, "class", event, "ParsingClassLines", "ParsingClassLine", "ParsingClass")

in_method_line(p, event) ==
    CASE event.type = "Start" ->
            basic_start(p, event, << <<"conditions", "ParsingMethodLineConditions">> >>)
      [] event.type = "End" ->
            basic_end(p, p, event, << <<"line", "ParsingMethodLines">> >>)
      [] event.type = "AttributesOnly" ->
            basic_start(p, event, << <<"conditions", "ParsingMethodLine">> >>)
      [] OTHER ->
            HErr(p, ErrorStartEnd(event, <<"conditions">>, <<"line">>))

\* in_class_line, had a self-closing conditions tag led where its start tag leads
in_class_lineDescends(p, event) ==
    CASE event.type \in {"Start", "AttributesOnly"} ->
            basic_start(p, event, << <<"conditions", "ParsingClassLineConditions">> >>)
      [] event.type = "End" ->
            basic_end(p, p, event, << <<"line", "ParsingClassLines">> >>)
      [] OTHER ->
            HErr(p, ErrorStartEnd(event, <<"conditions">>, <<"line">>))

in_class_line(p, event) ==
    CASE event.type = "Start" ->
            basic_start(p, event, << <<"conditions", "ParsingClassLineConditions">> >>)
      [] event.type = "End" ->
            basic_end(p, p, event, << <<"line", "ParsingClassLines">> >>)
      [] event.type = "AttributesOnly" ->
            basic_start(p, event, << <<"conditions", "ParsingClassLine">> >>)
      [] OTHER ->
            HErr(p, ErrorStartEnd(event, <<"conditions">>, <<"line">>))

in_line_conditions(p, event, on_attr_only, on_end) ==
    CASE event.type = "AttributesOnly" ->
            IF event.name = "condition"
            THEN LET Extracted(r) ==
                         CASE r.tag = "ok" ->
                                HOk([p EXCEPT !.line.conditions = Append(@, r.obj)],
                                    on_attr_only)
                           [] r.tag = "err" -> HErr(p, r.err)
                           [] OTHER -> HPanic(p)
                 IN Extracted(set_required_attributes(DefaultCondition, event.attrs,
                                                      ConditionDescs))
            ELSE HErr(p, ErrorStart(event, <<"condition">>))
      [] event.type = "End" ->
            IF event.name = "conditions" THEN HOk(p, on_end)
            ELSE HErr(p, ErrorEnd(event, <<"conditions">>))
      [] OTHER ->
            HErr(p, ErrorStartEnd(event, <<"condition">>, <<"conditions">>))

in_method_line_conditions(p, event) ==
    in_line_conditions(p, event, "ParsingMethodLineConditions", "ParsingMethodLine")

in_class_line_conditions(p, event) ==
    in_line_conditions(p, event, "ParsingClassLineConditions", "ParsingClassLine")

\* the `match state` of ParserInner::consume_event
Dispatch(p, event) ==
    CASE p.state = "ParsingCoverage" -> in_coverage(p, event)
      [] p.state = "ParsingSources" -> in_sources(p, event)
      [] p.state = "ParsingSource" -> in_source(p, event)
      [] p.state = "ParsingPackages" -> in_packages(p, event)
      [] p.state = "ParsingPackage" -> in_package(p, event)
      [] p.state = "ParsingClasses" -> in_classes(p, event)
      [] p.state = "ParsingClass" -> in_class(p, event)
      [] p.state = "ParsingMethods" -> in_methods(p, event)
      [] p.state = "ParsingMethod" -> in_method(p, event)
      [] p.state = "ParsingMethodLines" -> in_method_lines(p, event)
      [] p.state = "ParsingMethodLine" -> in_method_line(p, event)
      [] p.state = "ParsingMethodLineConditions" -> in_method_line_conditions(p, event)
      [] p.state = "ParsingClassLines" -> in_class_lines(p, event)
      [] p.state = "ParsingClassLine" -> in_class_line(p, event)
      [] p.state = "ParsingClassLineConditions" -> in_class_line_conditions(p, event)
      [] p.state = "End" -> HPanic(p)

(***************************************************************************)
(* Poll<Result<..>> values: [poll, doc, err].  poll is "Pending",          *)
(* "ReadyOk", "ReadyErr" or "Panic"; doc is None unless a document is      *)
(* handed out.                                                             *)
(***************************************************************************)
Pending == [poll |-> "Pending", doc |-> None, err |-> NoError]

ReadyOk(doc) == [poll |-> "ReadyOk", doc |-> Some(doc), err |-> NoError]

ReadyErr(e) == [poll |-> "ReadyErr", doc |-> None, err |-> e]

Panicked == [poll |-> "Panic", doc |-> None, err |-> NoError]

\* consume_event answering Ready as soon as the packages are closed
ParserInner_consume_eventEarly(p, event) ==
    LET Handled(h) ==
            CASE h.tag = "panic" -> [res |-> Panicked, p |-> h.p]
              [] h.tag = "err" -> [res |-> ReadyErr(h.err), p |-> h.p]
              [] OTHER ->
                    [res |-> IF h.state = "End"
                                \/ (p.state = "ParsingPackages" /\ event.type = "End")
                             THEN ReadyOk(h.p.coverage) ELSE Pending,
                     p |-> [h.p EXCEPT !.state = h.state]]
    IN Handled(Dispatch(p, event))

\* ParserInner::consume_event: [res, p] with res the Poll and p the accumulator afterwards
ParserInner_consume_event(p, event) ==
    LET Handled(h) ==
            CASE h.tag = "panic" -> [res |-> Panicked, p |-> h.p]
              [] h.tag = "err" -> [res |-> ReadyErr(h.err), p |-> h.p]
              [] OTHER ->
                    [res |-> IF h.state = "End" THEN ReadyOk(h.p.coverage) ELSE Pending,
                     p |-> [h.p EXCEPT !.state = h.state]]
    IN Handled(Dispatch(p, event))

\* parse_coverage looking at the tag name only, not at the kind of event
parse_coverageAnyTag(event) ==
    IF event.name # "coverage" THEN [tag |-> "err", inner |-> None,
                                     err |-> ErrorStart(event, <<"coverage">>)]
    ELSE LET Extracted(r) ==
                 CASE r.tag = "ok" ->
                        [tag |-> "ok", err |-> NoError,
                         inner |-> Some([coverage |-> r.obj, state |-> "ParsingCoverage",
                                         package |-> DefaultPackage, class |-> DefaultClass,
                                         method |-> DefaultMethod, line |-> DefaultLine])]
                   [] OTHER -> [tag |-> r.tag, inner |-> None, err |-> r.err]
         IN Extracted(set_required_attributes(DefaultCoverage, event.attrs, CoverageDescs))

\* Parser::parse_coverage: [tag, inner, err]
parse_coverage(event) ==
    IF event.type # "Start" THEN [tag |-> "err", inner |-> None,
                                  err |-> ErrorStart(event, <<"coverage">>)]
    ELSE IF event.name # "coverage" THEN [tag |-> "err", inner |-> None,
                                          err |-> ErrorStart(event, <<"coverage">>)]
    ELSE LET Extracted(r) ==
                 CASE r.tag = "ok" ->
                        [tag |-> "ok", err |-> NoError,
                         inner |-> Some([coverage |-> r.obj, state |-> "ParsingCoverage",
                                         package |-> DefaultPackage, class |-> DefaultClass,
                                         method |-> DefaultMethod, line |-> DefaultLine])]
                   [] OTHER -> [tag |-> r.tag, inner |-> None, err |-> r.err]
         IN Extracted(set_required_attributes(DefaultCoverage, event.attrs, CoverageDescs))

\* the accumulator kept after a failure
AfterResultKeepsFailed(res, p) ==
    CASE res.poll = "ReadyOk" -> None
      [] OTHER -> Some(p)

\* the accumulator kept after a completed document
AfterResultKeepsDone(res, p) ==
    CASE res.poll = "ReadyErr" -> None
      [] OTHER -> Some(p)

\* the accumulator kept whatever the inner call answered
AfterResultKeepsAll(res, p) == Some(p)

\* what Parser::consume_event does with self.inner once the inner call has answered
AfterResult(res, p) ==
    CASE res.poll = "Pending" -> Some(p)
      [] res.poll = "Panic" -> Some(p)
      [] OTHER -> None

\* Parser::consume_event: [res, inner]
Parser_consume_event(in, event) ==
    IF IsSome(in)
    THEN LET \* .map(|v| v.map(|_| std::mem::take(&mut inner.coverage)))
             Answered(r) ==
                 IF r.res.poll = "ReadyOk"
                 THEN [res |-> ReadyOk(r.p.coverage),
                       inner |-> AfterResult(r.res, [r.p EXCEPT !.coverage = DefaultCoverage])]
                 ELSE [res |-> r.res, inner |-> AfterResult(r.res, r.p)]
         IN Answered(ParserInner_consume_event(Unwrap(in), event))
    ELSE LET Entered(r) ==
                 CASE r.tag = "ok" -> [res |-> Pending, inner |-> r.inner]
                   [] r.tag = "err" -> [res |-> ReadyErr(r.err), inner |-> None]
                   [] OTHER -> [res |-> Panicked, inner |-> None]
         IN Entered(parse_coverage(event))

(***************************************************************************)
(* parser.rs: FilteredEvent::try_from and one iteration of Parser::parse.  *)
(* A raw token is [type, name, attrs, text]; type is one of Start, End,    *)
(* Empty, Text, Eof, Decl, Comment, ReadError (the reader's Err).          *)
(***************************************************************************)
\* text.as_ref().trim_ascii().is_empty()
IsBlank(text) == text \in {"", " ", "\n  "}

\* FilteredEvent::try_from, had it handed blank texts on
FilteredEvent_try_fromKeepsBlank(tok) ==
    CASE tok.type = "Eof" -> None
      [] tok.type = "Decl" -> None
      [] tok.type = "Text" -> Some(tok)
      [] tok.type = "Start" -> Some(tok)
      [] tok.type = "End" -> Some(tok)
      [] tok.type = "Empty" -> Some([tok EXCEPT !.type = "AttributesOnly"])
      [] OTHER -> None

\* FilteredEvent::try_from: None, or Some(filtered event)
FilteredEvent_try_from(tok) ==
    CASE tok.type = "Eof" -> None
      [] tok.type = "Decl" -> None
      [] tok.type = "Text" /\ IsBlank(tok.text) -> None
      [] tok.type = "Text" -> Some(tok)
      [] tok.type = "Start" -> Some(tok)
      [] tok.type = "End" -> Some(tok)
      [] tok.type = "Empty" -> Some([tok EXCEPT !.type = "AttributesOnly"])
      [] OTHER -> None

\* parse handing out what was accumulated when the input ends
ParseEofPartial(in) ==
    IF IsSome(in) THEN [done |-> TRUE, res |-> ReadyOk(Unwrap(in).coverage), inner |-> None]
    ELSE [done |-> TRUE, res |-> ReadyErr(UnexpectedEof), inner |-> in]

\* what Parser::parse does when the reader yields Event::Eof: [done, res, inner]
ParseEof(in) == [done |-> TRUE, res |-> ReadyErr(UnexpectedEof), inner |-> in]

\* one iteration of the loop of Parser::parse: [done, res, inner]
ParseIteration(in, tok) ==
    IF tok.type = "ReadError" THEN [done |-> TRUE, res |-> Panicked, inner |-> in]
    ELSE IF tok.type = "Eof" THEN ParseEof(in)
    ELSE LET Polled(r) ==
                 [done |-> r.res.poll # "Pending", res |-> r.res, inner |-> r.inner]
             Classified(filtered) ==
                 IF ~IsSome(filtered) THEN [done |-> FALSE, res |-> Pending, inner |-> in]
                 ELSE Polled(Parser_consume_event(in, Unwrap(filtered)))
         IN Classified(FilteredEvent_try_from(tok))

EofToken == [type |-> "Eof", name |-> "", attrs |-> <<>>, text |-> ""]

\* the token the reader yields at place i of its input: Eof once the input is used up
ReadEvent(stream, i) == IF i <= Len(stream) THEN stream[i] ELSE EofToken

\* Parser::parse on a reader over stream, from place i, with log the events
\* consume_event accepted so far: [res, inner, log, tok, at], tok the token and
\* at the position of the last iteration
RECURSIVE Parser_parse(_, _, _, _)
Parser_parse(in, stream, i, log) ==
    LET Iterated(tok, filtered, it) ==
            IF it.done
            THEN [res |-> it.res, inner |-> it.inner,
                  tok |-> IF IsSome(filtered) THEN Unwrap(filtered) ELSE tok,
                  at |-> IF IsSome(in) THEN Unwrap(in).state ELSE "Unstarted",
                  log |-> CASE tok.type \in {"Eof", "ReadError"} -> log
                            [] it.res.poll = "ReadyOk" -> Append(log, Unwrap(filtered))
                            [] OTHER -> <<>>]
            ELSE Parser_parse(it.inner, stream, i + 1,
                              IF IsSome(filtered) THEN Append(log, Unwrap(filtered)) ELSE log)
        Read(tok) == Iterated(tok, FilteredEvent_try_from(tok), ParseIteration(in, tok))
    IN Read(ReadEvent(stream, i))

(***************************************************************************)
(* The inputs: tags with attribute lists drawn from a valid list per       *)
(* element kind and from damaged copies of it.                             *)
(***************************************************************************)
A(k, v) == [key |-> k, value |-> v, ok |-> TRUE]

Unreadable == [key |-> "", value |-> "", ok |-> FALSE]

CoverageAttrs(i) ==
    << A("line-rate", "0.5"), A("branch-rate", "1"), A("lines-covered", i),
       A("lines-valid", "2"), A("branches-covered", "1"), A("branches-valid", "2"),
       A("complexity", "1"), A("version", "&lt;1"), A("timestamp", i) >>

PackageAttrs(n) ==
    << A("name", n), A("line-rate", "1"), A("branch-rate", "0.5"), A("complexity", "2") >>

ClassAttrs(n) ==
    << A("name", n), A("filename", "src/a.rs"), A("line-rate", "1"),
       A("branch-rate", "0.5"), A("complexity", "2") >>

MethodAttrs(n) ==
    << A("name", n), A("signature", "()V"), A("line-rate", "1"), A("branch-rate", "0.5") >>

LineAttrs(i) == << A("number", i), A("hits", "1") >>

BranchLineAttrs(i) ==
    << A("condition-coverage", "50% (1/2)"), A("branch", "true"), A("hits", "2"),
       A("number", i) >>

ConditionAttrs(t) == << A("type", t), A("coverage", "50%") >>

NumberedConditionAttrs(t) == << A("coverage", "100%"), A("number", "1"), A("type", t) >>

\* s without its i-th attribute
Drop(s, i) == SubSeq(s, 1, i - 1) \o SubSeq(s, i + 1, Len(s))

\* s with the text of its i-th attribute replaced by v
Replace(s, i, v) == [s EXCEPT ![i].value = v]

IsTyped(key) ==
    key \in {"line-rate", "branch-rate", "lines-covered", "lines-valid", "branches-covered",
             "branches-valid", "complexity", "timestamp", "number", "hits", "branch"}

\* damaged copies of a valid attribute list
Damaged(s) ==
    {Drop(s, i) : i \in 1..Len(s)}
    \cup {Replace(s, i, "abc") : i \in {j \in 1..Len(s) : IsTyped(s[j].key)}}
    \cup {Append(s, Unreadable), Reverse(Drop(Drop(s, 1), 1))}
    \cup (IF Len(s) >= 3 /\ IsTyped(s[2].key) /\ IsTyped(s[3].key)
          THEN {Replace(Replace(s, 2, "abc"), 3, "x"),
                Reverse(Replace(Replace(s, 2, "abc"), 3, "x")),
                Drop(Replace(s, 3, "abc"), 2)}
          ELSE {})

\* the first valid attribute list of each element kind
PlainAttrs(name) ==
    CASE name = "coverage" -> CoverageAttrs("1")
      [] name = "package" -> PackageAttrs("p1")
      [] name = "class" -> ClassAttrs("c1")
      [] name = "method" -> MethodAttrs("m1")
      [] name = "line" -> BranchLineAttrs("1")
      [] name = "condition" -> ConditionAttrs("jump")
      [] OTHER -> <<>>

\* the further valid attribute lists of each element kind
OtherValidAttrs(name) ==
    CASE name = "coverage" -> {Reverse(Append(CoverageAttrs("2"), A("extra", "abc")))}
      [] name = "package" -> {Reverse(PackageAttrs("p2"))}
      [] name = "class" -> {Reverse(ClassAttrs("c2"))}
      [] name = "method" -> {Reverse(MethodAttrs("m2"))}
      [] name = "line" -> {LineAttrs("2")}
      [] name = "condition" -> {NumberedConditionAttrs("switch")}
      [] OTHER -> {}

DamagedAttrs(name) ==
    IF name = "line" THEN Damaged(LineAttrs("2")) \cup Damaged(BranchLineAttrs("1"))
    ELSE IF PlainAttrs(name) = <<>> THEN {}
    ELSE Damaged(PlainAttrs(name))

Tag(type, name, attrs) == [type |-> type, name |-> name, attrs |-> attrs, text |-> ""]

Text(text) == [type |-> "Text", name |-> "", attrs |-> <<>>, text |-> text]

Bare(type) == [type |-> type, name |-> "", attrs |-> <<>>, text |-> ""]

\* the element whose attributes are read at a position ("" where none is)
ReadsAttrsOf(state) ==
    CASE state = "Unstarted" -> "coverage"
      [] state = "ParsingPackages" -> "package"
      [] state = "ParsingClasses" -> "class"
      [] state = "ParsingMethods" -> "method"
      [] state \in {"ParsingClassLines", "ParsingMethodLines"} -> "line"
      [] state \in {"ParsingClassLineConditions", "ParsingMethodLineConditions"} -> "condition"
      [] OTHER -> ""

Positions ==
    {"Unstarted", "ParsingCoverage", "ParsingSources", "ParsingSource", "ParsingPackages",
     "ParsingPackage", "ParsingClasses", "ParsingClass", "ParsingClassLines",
     "ParsingClassLine", "ParsingMethods", "ParsingMethod", "ParsingMethodLines",
     "ParsingMethodLine", "ParsingMethodLineConditions", "ParsingClassLineConditions", "End"}

\* the tag names a position's handler compares the tag name with
KnownNames(state) ==
    CASE state = "Unstarted" -> {"coverage"}
      [] state = "ParsingCoverage" -> {"sources", "packages", "coverage"}
      [] state = "ParsingSources" -> {"source", "sources"}
      [] state = "ParsingSource" -> {"source"}
      [] state = "ParsingPackages" -> {"package", "packages"}
      [] state = "ParsingPackage" -> {"classes", "package"}
      [] state = "ParsingClasses" -> {"class", "classes"}
      [] state = "ParsingClass" -> {"methods", "lines", "class"}
      [] state = "ParsingMethods" -> {"method", "methods"}
      [] state = "ParsingMethod" -> {"lines", "method"}
      [] state \in {"ParsingClassLines", "ParsingMethodLines"} -> {"line", "lines"}
      [] state \in {"ParsingClassLine", "ParsingMethodLine"} -> {"conditions", "line"}
      [] state \in {"ParsingClassLineConditions", "ParsingMethodLineConditions"} ->
            {"condition", "conditions"}
      [] OTHER -> {}

\* tag names no handler but the root's knows at that place
ForeignNames == {"bogus", "coverage", "packages"}

\* Start, end and self-closing tags of the known and the foreign names with
\* their first valid attribute list, and the texts.
PlainTokens ==
    [s \in Positions |->
        {Tag(t, n, PlainAttrs(n)) : t \in {"Start", "Empty"}, n \in KnownNames(s) \cup ForeignNames}
        \cup {Tag("End", n, <<>>) : n \in KnownNames(s) \cup ForeignNames}
        \cup {Text("/src")}]

\* the kinds of tag whose attributes a position's handler reads
ReadsAttrsIn(state) ==
    CASE state \in {"ParsingClassLines", "ParsingMethodLines"} -> {"Start", "Empty"}
      [] state \in {"ParsingClassLineConditions", "ParsingMethodLineConditions"} -> {"Empty"}
      [] OTHER -> {"Start"}

\* the tags with a damaged attribute list, for the element whose attributes are read
DamagedTokens ==
    [s \in Positions |->
        {Tag(t, ReadsAttrsOf(s), a) : t \in ReadsAttrsIn(s), a \in DamagedAttrs(ReadsAttrsOf(s))}]

\* the tags with another valid attribute list, for the element whose attributes are read
OtherValidTokens ==
    [s \in Positions |->
        {Tag(t, ReadsAttrsOf(s), a) : t \in ReadsAttrsIn(s), a \in OtherValidAttrs(ReadsAttrsOf(s))}]

\* the log is still the first descent: start tags only
Descending(log) == \A i \in 1..Len(log) : log[i].type = "Start"

\* The tokens offered at a position after the events of log.  Attributes are
\* never looked at where the tag name is rejected, so the attribute lists vary
\* only for the element whose attributes are read there; on the first descent
\* every element below the root comes with its first valid list.
TokensAt(state, log) ==
    PlainTokens[state] \cup DamagedTokens[state]
    \cup (IF log = <<>> THEN OtherValidTokens[state]
          ELSE IF Descending(log) THEN {}
          ELSE OtherValidTokens[state] \cup {Text("\\xff"), Text("/lib")})

Decl == Bare("Decl")

Comment == Bare("Comment")

Blank == Text("\n  ")

Plain(type, name) == Tag(type, name, PlainAttrs(name))

\* The inputs of Parser::parse: a minimal document, a document down to a
\* condition of a class line, one down to a method line, and one with a
\* foreign child of the root.  The reader yields every token without error and
\* every attribute text unescapes.
MinimalDocument ==
    << Decl, Blank, Plain("Start", "coverage"), Blank, Plain("Empty", "packages"),
       Comment, Plain("End", "coverage"), Blank >>

ClassLineDocument ==
    << Plain("Start", "coverage"), Plain("Start", "packages"), Blank,
       Plain("Start", "package"), Plain("Start", "classes"), Plain("Start", "class"),
       Plain("Start", "lines"), Plain("Start", "line"), Plain("Start", "conditions"),
       Plain("Empty", "condition"), Blank, Plain("End", "conditions"), Plain("End", "line"),
       Plain("End", "lines"), Plain("End", "class"), Plain("End", "classes"),
       Plain("End", "package"), Plain("End", "packages"), Plain("End", "coverage") >>

MethodLineDocument ==
    << Decl, Plain("Start", "coverage"), Plain("Start", "packages"),
       Plain("Start", "package"), Plain("Start", "classes"), Plain("Start", "class"),
       Plain("Start", "methods"), Plain("Start", "method"), Plain("Start", "lines"),
       Plain("Empty", "line"), Plain("End", "lines"), Plain("End", "method"),
       Plain("End", "methods"), Plain("End", "class"), Plain("End", "classes"),
       Plain("End", "package"), Plain("End", "packages"), Plain("End", "coverage") >>

ForeignChildDocument ==
    << Plain("Start", "coverage"), Plain("Start", "bogus"), Plain("End", "bogus"),
       Plain("End", "coverage") >>

Documents == {MinimalDocument, ClassLineDocument, MethodLineDocument, ForeignChildDocument}

\* the inputs and their truncations
Streams == UNION {{SubSeq(d, 1, n) : n \in 0..Len(d)} : d \in Documents}

\* the filtered event a tag or text token is handed on as
Filtered(tok) == Unwrap(FilteredEvent_try_from(tok))

(***************************************************************************)
(* The facade as a state machine.                                          *)
(***************************************************************************)
Position(in) == IF IsSome(in) THEN Unwrap(in).state ELSE "Unstarted"

\* the opening events (start tag, self-closing tag, text) of a log
RECURSIVE Opens(_)
Opens(log) ==
    IF log = <<>> THEN 0
    ELSE (IF Head(log).type = "End" THEN 0 ELSE 1) + Opens(Tail(log))

\* the first descent of a log: its leading start tags and the event after them
RECURSIVE FirstDescent(_)
FirstDescent(log) ==
    IF log = <<>> THEN 0
    ELSE IF Head(log).type = "Start" THEN 1 + FirstDescent(Tail(log))
    ELSE 1

\* the opening events of a log after its first descent
Extra(log) == Opens(SubSeq(log, FirstDescent(log) + 1, Len(log)))

NoCall == [call |-> "none", poll |-> "none", doc |-> None, err |-> NoError]

Returned(call, res) == [call |-> call, poll |-> res.poll, doc |-> res.doc, err |-> res.err]

Init ==
    /\ inner = None
    /\ ret = NoCall
    /\ fed = <<>>
    /\ lastEv = Bare("none")
    /\ lastState = "Unstarted"
    /\ served = FALSE

\* a panic ends the program
Running == ret.poll # "Panic"

\* the parser a call leaves behind: a panic unwinds the caller and drops it
Survives(res, in) == IF res.poll = "Panic" THEN None ELSE in

\* the log a call starts from: a new one after a completed document
Log == IF ret.poll = "ReadyOk" THEN <<>> ELSE fed

\* the log after consume_event answered res to event
NextFed(log, res, event) ==
    IF res.poll \in {"Pending", "ReadyOk"} THEN Append(log, event) ELSE <<>>

\* the caller keeps a document within MaxExtra opening events after the first descent
WithinBudget(log, used, res, event) ==
    (res.poll = "Pending" /\ event.type # "End" /\ ~Descending(log)) => used < MaxExtra

\* a call of Parser::consume_event
ConsumeEvent ==
    /\ Running
    /\ \E tok \in TokensAt(Position(inner), Log) :
         LET Called(log, event, r) ==
                 /\ WithinBudget(log, Extra(log), r.res, event)
                 /\ inner' = Survives(r.res, r.inner)
                 /\ ret' = Returned("consume_event", r.res)
                 /\ fed' = NextFed(log, r.res, event)
                 /\ lastEv' = event
                 /\ lastState' = Position(inner)
                 /\ served' = (served \/ ret.poll = "ReadyOk")
         IN Called(Log, Filtered(tok), Parser_consume_event(inner, Filtered(tok)))

\* Parser::parse of each input on an unstarted parser
ParseFresh == [stream \in Streams |-> Parser_parse(None, stream, 1, <<>>)]

\* a call of Parser::parse on a reader over one of the inputs, made at the
\* start of an input: on a parser that was not fed since its last final
\* answer, or after an earlier parse ran into the end of its input
Parse ==
    /\ Running
    /\ Log = <<>> \/ (ret.call = "parse" /\ ret.err = UnexpectedEof)
    /\ \E stream \in Streams :
         LET Called(r) ==
                 /\ inner' = Survives(r.res, r.inner)
                 /\ ret' = Returned("parse", r.res)
                 /\ fed' = r.log
                 /\ lastEv' = r.tok
                 /\ lastState' = r.at
                 /\ served' = (served \/ ret.poll = "ReadyOk")
         IN Called(IF inner = None /\ Log = <<>> THEN ParseFresh[stream]
                   ELSE Parser_parse(inner, stream, 1, Log))

\* a reset that leaves the accumulator where it is
ResetKeepsAccumulator ==
    /\ Running
    /\ inner' = inner
    /\ ret' = [NoCall EXCEPT !.call = "reset"]
    /\ fed' = <<>>
    /\ lastEv' = Bare("none")
    /\ lastState' = Position(inner)
    /\ served' = (served \/ ret.poll = "ReadyOk")

\* a call of Parser::reset
Reset ==
    /\ Running
    /\ inner' = None
    /\ ret' = [NoCall EXCEPT !.call = "reset"]
    /\ fed' = <<>>
    /\ lastEv' = Bare("none")
    /\ lastState' = Position(inner)
    /\ served' = (served \/ ret.poll = "ReadyOk")

Next == ConsumeEvent \/ Parse \/ Reset

Spec == Init /\ [][Next]_vars

(***************************************************************************)
(* Well-formed documents fed event by event: only events the parser        *)
(* accepts, with sibling elements.  The n-th element of a kind alternates  *)
(* between two attribute lists, so that neighbours differ: every other     *)
(* line carries the optional attributes.                                   *)
(***************************************************************************)
\* bound: the opening events of a well-formed document after its first descent
MaxMore == 3

\* the elements of a kind opened in a log
RECURSIVE Opened(_, _)
Opened(log, name) ==
    IF log = <<>> THEN 0
    ELSE (IF Head(log).name = name /\ Head(log).type # "End" THEN 1 ELSE 0)
         + Opened(Tail(log), name)

\* "1" for the first, third, ... element of a kind, "2" for the others
Ordinal(log, name) == IF Opened(log, name) % 2 = 0 THEN "1" ELSE "2"

\* the attribute lists the next element of a kind may carry
ElementAttrs(log, name) ==
    CASE name = "coverage" -> {CoverageAttrs(Ordinal(log, name))}
      [] name = "package" ->
            {PackageAttrs(IF Ordinal(log, name) = "1" THEN "p1" ELSE "p2")}
      [] name = "class" ->
            {ClassAttrs(IF Ordinal(log, name) = "1" THEN "c1" ELSE "c2")}
      [] name = "method" ->
            {MethodAttrs(IF Ordinal(log, name) = "1" THEN "m1" ELSE "m2")}
      [] name = "line" ->
            {IF Ordinal(log, name) = "1" THEN BranchLineAttrs("1") ELSE LineAttrs("2")}
      [] name = "condition" ->
            {IF Ordinal(log, name) = "1" THEN ConditionAttrs("jump")
             ELSE NumberedConditionAttrs("switch")}
      [] OTHER -> {<<>>}

\* the tags of the names a position's handler knows, sources and self-closing
\* containers left aside
ElementTokens(state, log) ==
    UNION {{Tag(t, n, a) : t \in (IF n \in {"line", "condition"} THEN {"Start", "Empty"}
                                  ELSE {"Start"}),
                           a \in ElementAttrs(log, n)} :
              n \in KnownNames(state) \ {"sources"}}
    \cup {Tag("End", n, <<>>) : n \in KnownNames(state)}

\* the caller keeps a document within MaxMore opening events after the first descent
WithinMore(log, event) ==
    (event.type # "End" /\ ~Descending(log)) => Extra(log) < MaxMore

\* a call of Parser::consume_event with the next event of a well-formed document
FeedWellFormed ==
    /\ ret.poll \in {"none", "Pending"}
    /\ \E tok \in ElementTokens(Position(inner), fed) :
         LET Called(event, r) ==
                 /\ r.res.poll \in {"Pending", "ReadyOk"}
                 /\ WithinMore(fed, event)
                 /\ inner' = r.inner
                 /\ ret' = Returned("consume_event", r.res)
                 /\ fed' = Append(fed, event)
                 /\ lastEv' = event
                 /\ lastState' = Position(inner)
                 /\ served' = served
         IN Called(Filtered(tok), Parser_consume_event(inner, Filtered(tok)))

NextWellFormed == FeedWellFormed

SpecWellFormed == Init /\ [][NextWellFormed]_vars

(***************************************************************************)
(* Documents whose root holds sources blocks only, fed event by event:     *)
(* source elements with no, one or several texts.                          *)
(***************************************************************************)
\* bound: the opening events (start tags and texts) after the root start tag
MaxSourceEvents == 5

SourceTexts == {"/src", "/lib"}

\* the events a sources document may continue with at a position
SourceTokens(state) ==
    (CASE state = "Unstarted" -> {Tag("Start", "coverage", CoverageAttrs("1"))}
       [] state = "ParsingCoverage" -> {Tag("Start", "sources", <<>>)}
       [] state = "ParsingSources" -> {Tag("Start", "source", <<>>)}
       [] OTHER -> {})
    \cup {Tag("End", n, <<>>) : n \in KnownNames(state)}
    \cup (IF state = "ParsingSource" THEN {Text(t) : t \in SourceTexts} ELSE {})

FeedSources ==
    /\ ret.poll \in {"none", "Pending"}
    /\ \E tok \in SourceTokens(Position(inner)) :
         LET Called(event, r) ==
                 /\ r.res.poll \in {"Pending", "ReadyOk"}
                 /\ event.type # "End" => Opens(fed) <= MaxSourceEvents
                 /\ inner' = r.inner
                 /\ ret' = Returned("consume_event", r.res)
                 /\ fed' = Append(fed, event)
                 /\ lastEv' = event
                 /\ lastState' = Position(inner)
                 /\ served' = served
         IN Called(Filtered(tok), Parser_consume_event(inner, Filtered(tok)))

NextSources == FeedSources

SpecSources == Init /\ [][NextSources]_vars

(***************************************************************************)
(* Parser::parse over the inputs with declarations, comments and blank     *)
(* texts inserted.  Here fed is the token stream without the inserted      *)
(* tokens, so that the two readings can be compared.                       *)
(***************************************************************************)
\* bound: the tokens inserted at one place of a stream
MaxInserted == 2

\* the tokens FilteredEvent::try_from answers None to
Ignorable == {Decl, Comment, Blank}

InsertedRuns == UNION {[1..n -> Ignorable] : n \in 1..MaxInserted}

\* stream with the tokens of run inserted after its i-th token
Inserted(stream, i, run) == SubSeq(stream, 1, i) \o run \o SubSeq(stream, i + 1, Len(stream))

\* Parser::parse on a fresh parser over each stream with each insertion
ParseInsertedFresh ==
    [stream \in Streams |->
        [i \in 0..Len(stream) |->
            [run \in InsertedRuns |-> Parser_parse(None, Inserted(stream, i, run), 1, <<>>)]]]

\* the first call of Parser::parse on a new parser, on a reader over a stream
\* with inserted tokens; lastEv is the last token inserted
ParseInserted ==
    /\ ret = NoCall
    /\ inner = None
    /\ \E stream \in Streams :
         \E i \in 0..Len(stream), run \in InsertedRuns :
            LET Called(r) ==
                    /\ inner' = Survives(r.res, r.inner)
                    /\ ret' = Returned("parse", r.res)
                    /\ fed' = stream
                    /\ lastEv' = run[Len(run)]
                    /\ lastState' = r.at
                    /\ served' = served
            IN Called(ParseInsertedFresh[stream][i][run])

NextInserted == ParseInserted

SpecInserted == Init /\ [][NextInserted]_vars

(***************************************************************************)
(* The attributes each tag declares and what it means for an attribute     *)
(* list to satisfy them, stated apart from the extractor.                  *)
(***************************************************************************)
Floats == {"0.5", "1", "2"}

Uints == {"1", "2"}

Bools == {"true", "false"}

Converts(ty, text) ==
    CASE ty = "float" -> text \in Floats
      [] ty = "uint" -> text \in Uints
      [] ty = "bool" -> text \in Bools
      [] OTHER -> TRUE

\* tag name -> required attributes and their types
RequiredOf(name) ==
    CASE name = "coverage" ->
            {<<"line-rate", "float">>, <<"branch-rate", "float">>, <<"lines-covered", "uint">>,
             <<"lines-valid", "uint">>, <<"branches-covered", "uint">>,
             <<"branches-valid", "uint">>, <<"complexity", "float">>,
             <<"version", "string">>, <<"timestamp", "uint">>}
      [] name = "package" ->
            {<<"name", "string">>, <<"line-rate", "float">>, <<"branch-rate", "float">>,
             <<"complexity", "float">>}
      [] name = "class" ->
            {<<"name", "string">>, <<"filename", "path">>, <<"line-rate", "float">>,
             <<"branch-rate", "float">>, <<"complexity", "float">>}
      [] name = "method" ->
            {<<"name", "string">>, <<"signature", "string">>, <<"line-rate", "float">>,
             <<"branch-rate", "float">>}
      [] name = "line" -> {<<"number", "uint">>, <<"hits", "uint">>}
      [] name = "condition" -> {<<"type", "string">>, <<"coverage", "string">>}
      [] OTHER -> {}

\* tag name -> optional attributes and their types
OptionalOf(name) ==
    IF name = "line" THEN {<<"branch", "bool">>, <<"condition-coverage", "string">>} ELSE {}

Readable(attrs) == \A i \in 1..Len(attrs) : attrs[i].ok

Present(attrs, key) == \E i \in 1..Len(attrs) : attrs[i].ok /\ attrs[i].key = key

\* the declared attributes of the tag that are present with a text of the wrong type
Unconvertible(name, attrs) ==
    {d \in RequiredOf(name) \cup OptionalOf(name) :
        \E i \in 1..Len(attrs) : attrs[i].ok /\ attrs[i].key = d[1] /\ ~Converts(d[2], attrs[i].value)}

\* the required attributes the tag lacks
Lacking(name, attrs) == {d \in RequiredOf(name) : ~Present(attrs, d[1])}

ValidTag(name, attrs) ==
    Readable(attrs) /\ Lacking(name, attrs) = {} /\ Unconvertible(name, attrs) = {}

\* the places where a tag's attributes decide whether it is accepted
ReadsAttributes(state, type, name) ==
    /\ name # ""
    /\ name = ReadsAttrsOf(state)
    /\ type \in (IF name = "line" THEN {"Start", "AttributesOnly"}
                 ELSE IF name = "condition" THEN {"AttributesOnly"} ELSE {"Start"})

\* the last call was consume_event, called directly or from the loop of parse
Consumed ==
    /\ ret.call \in {"consume_event", "parse"}
    /\ lastEv.type \in {"Start", "End", "AttributesOnly", "Text"}

\* the answers a fresh parser gives to the events of log, the last one
RECURSIVE FeedFrom(_, _, _)
FeedFrom(in, log, res) ==
    IF log = <<>> THEN res
    ELSE LET r == Parser_consume_event(in, Head(log)) IN
         FeedFrom(r.inner, Tail(log), r.res)

FreshRun(log) == FeedFrom(None, log, Pending)

(***************************************************************************)
(* C1: whenever consume_event returns a failure, the parser holds no       *)
(* accumulator afterwards: it is unstarted again.                          *)
(***************************************************************************)
C1_FailureDiscardsAccumulator ==
    (Consumed /\ ret.poll = "ReadyErr") => (inner = None /\ Position(inner) = "Unstarted")

C1_Witness ==
    /\ ret.call = "consume_event" /\ ret.poll = "ReadyErr"
    /\ lastState = "ParsingClassLineConditions"
    /\ ret.err.kind = "MissingRequiredAttribute"
    /\ inner = None

(***************************************************************************)
(* C2: an unstarted parser accepts only a coverage start tag with all nine *)
(* root attributes valid, answering Pending and entering ParsingCoverage;  *)
(* any other first event fails and leaves the parser unstarted.            *)
(***************************************************************************)
C2_RootEntry ==
    (ret.call = "consume_event" /\ lastState = "Unstarted") =>
        IF lastEv.type = "Start" /\ lastEv.name = "coverage"
           /\ ValidTag("coverage", lastEv.attrs)
        THEN /\ ret.poll = "Pending"
             /\ Position(inner) = "ParsingCoverage"
        ELSE /\ ret.poll = "ReadyErr"
             /\ inner = None

C2_Witness ==
    /\ ret.call = "consume_event" /\ lastState = "Unstarted"
    /\ lastEv.type = "Start" /\ lastEv.name = "coverage"
    /\ lastEv.attrs # PlainAttrs("coverage")
    /\ ret.poll = "Pending"
    /\ Position(inner) = "ParsingCoverage"

(***************************************************************************)
(* C3: a document is handed out exactly when the end tag of coverage is    *)
(* consumed in ParsingCoverage; no answer before that carries a document.  *)
(***************************************************************************)
C3_CompleteOnlyAtRootEnd ==
    /\ ret.poll = "ReadyOk" <=>
          (Consumed /\ lastEv.type = "End" /\ lastEv.name = "coverage"
                    /\ lastState = "ParsingCoverage")
    /\ IsSome(ret.doc) <=> ret.poll = "ReadyOk"
    /\ (Consumed /\ ret.poll # "ReadyOk") => ret.poll \in {"Pending", "ReadyErr"}

C3_Witness ==
    /\ ret.call = "consume_event" /\ ret.poll = "ReadyOk"
    /\ lastEv.type = "End" /\ lastEv.name = "coverage"
    /\ Unwrap(ret.doc).packages # <<>>

(***************************************************************************)
(* C4: after a completed document the parser is unstarted and keeps no     *)
(* data, so the document a reused instance hands out is the one a fresh    *)
(* instance hands out for the same events.                                 *)
(***************************************************************************)
C4_ReusableAfterCompletion ==
    ret.poll = "ReadyOk" =>
        /\ inner = None
        /\ FreshRun(fed).poll = "ReadyOk"
        /\ ret.doc = FreshRun(fed).doc

C4_Witness ==
    /\ served /\ ret.poll = "ReadyOk" /\ inner = None
    /\ Unwrap(ret.doc).packages # <<>>

(***************************************************************************)
(* C5: a coverage start tag with valid attributes, a self-closing packages *)
(* tag and the end tag of coverage parse to a document with no packages.   *)
(***************************************************************************)
RootStart(event) ==
    event.type = "Start" /\ event.name = "coverage" /\ ValidTag("coverage", event.attrs)

EmptyPackages(event) == event.type = "AttributesOnly" /\ event.name = "packages"

C5_MinimalDocument ==
    /\ (Len(fed) = 2 /\ ret.poll = "Pending" /\ RootStart(fed[1]) /\ EmptyPackages(fed[2])) =>
          LET r == Parser_consume_event(inner, Tag("End", "coverage", <<>>)) IN
          /\ r.res.poll = "ReadyOk"
          /\ Unwrap(r.res.doc).packages = <<>>
    /\ (Len(fed) = 3 /\ ret.poll = "ReadyOk" /\ RootStart(fed[1]) /\ EmptyPackages(fed[2])) =>
          Unwrap(ret.doc).packages = <<>>

C5_Witness ==
    /\ Len(fed) = 3 /\ ret.poll = "ReadyOk" /\ RootStart(fed[1]) /\ EmptyPackages(fed[2])
    /\ Unwrap(ret.doc).packages = <<>>
    /\ Unwrap(ret.doc).timestamp = 2

(***************************************************************************)
(* C6: a tag whose attributes are read where it arrives and that lacks     *)
(* exactly one required attribute, all others being valid, fails with      *)
(* MissingRequiredAttribute naming that attribute.                         *)
(***************************************************************************)
LacksExactlyOne(name, attrs) ==
    /\ Readable(attrs)
    /\ Cardinality(Lacking(name, attrs)) = 1
    /\ Unconvertible(name, attrs) = {}

C6_MissingAttributeNamed ==
    (Consumed /\ ReadsAttributes(lastState, lastEv.type, lastEv.name)
              /\ LacksExactlyOne(lastEv.name, lastEv.attrs)) =>
        /\ ret.poll = "ReadyErr"
        /\ ret.err.kind = "MissingRequiredAttribute"
        /\ \E d \in Lacking(lastEv.name, lastEv.attrs) : ret.err.attr = d[1]

C6_Witness ==
    /\ Consumed /\ lastState = "ParsingClassLineConditions"
    /\ lastEv.type = "AttributesOnly" /\ lastEv.name = "condition"
    /\ LacksExactlyOne("condition", lastEv.attrs)
    /\ ret.err = MissingRequiredAttribute("coverage")

(***************************************************************************)
(* C7: a tag whose attributes are read where it arrives, with readable     *)
(* attributes of which a typed one has a text of the wrong type, fails     *)
(* with InvalidValueForAttribute naming an attribute with such a text:     *)
(* that attribute when it is the only one.                                 *)
(***************************************************************************)
C7_InvalidValueNamed ==
    (Consumed /\ ReadsAttributes(lastState, lastEv.type, lastEv.name)
              /\ Readable(lastEv.attrs)
              /\ Unconvertible(lastEv.name, lastEv.attrs) # {}) =>
        /\ ret.poll = "ReadyErr"
        /\ ret.err.kind = "InvalidValueForAttribute"
        /\ \E d \in Unconvertible(lastEv.name, lastEv.attrs) : ret.err.attr = d[1]

C7_Witness ==
    /\ Consumed /\ lastState = "ParsingMethods"
    /\ lastEv.type = "Start" /\ lastEv.name = "method"
    /\ Unconvertible("method", lastEv.attrs) = {<<"branch-rate", "float">>}
    /\ ret.err = InvalidValueForAttribute("branch-rate")

(***************************************************************************)
(* C8: when parse reaches the end of its input before the root end tag was *)
(* accepted, it returns UnexpectedEof and no document.                     *)
(***************************************************************************)
C8_TruncationIsUnexpectedEof ==
    (ret.call = "parse" /\ lastEv.type = "Eof") =>
        /\ ret.poll = "ReadyErr"
        /\ ret.err = UnexpectedEof
        /\ ret.doc = None

C8_Witness ==
    /\ ret.call = "parse" /\ lastEv.type = "Eof"
    /\ lastState = "ParsingClassLine"
    /\ ret.err = UnexpectedEof
    /\ Unwrap(inner).line.number = 1

(***************************************************************************)
(* C9: after parse returns UnexpectedEof the parser is unstarted, as after *)
(* every other error.                                                      *)
(***************************************************************************)
C9_EofDiscardsAccumulator ==
    (ret.call = "parse" /\ ret.poll = "ReadyErr" /\ ret.err = UnexpectedEof) => inner = None

(***************************************************************************)
(* C10: in ParsingCoverage a start tag other than sources and packages     *)
(* fails with ExpectedStart, expecting sources and packages and naming the *)
(* received start tag; no document is returned and the accumulator is      *)
(* discarded.                                                              *)
(***************************************************************************)
C10_ForeignChildOfRoot ==
    (Consumed /\ lastState = "ParsingCoverage" /\ lastEv.type = "Start"
              /\ lastEv.name \notin {"sources", "packages"}) =>
        /\ ret.poll = "ReadyErr"
        /\ ret.err.kind = "ExpectedStart"
        /\ SeqRange(ret.err.expected) = {"sources", "packages"}
        /\ Len(ret.err.expected) = 2
        /\ ret.err.got = [kind |-> "Start", name |-> lastEv.name]
        /\ ret.doc = None
        /\ inner = None

C10_Witness ==
    /\ Consumed /\ lastState = "ParsingCoverage"
    /\ lastEv.type = "Start" /\ lastEv.name = "bogus"
    /\ ret.err.kind = "ExpectedStart"
    /\ ret.err.got = [kind |-> "Start", name |-> "bogus"]
    /\ inner = None

(***************************************************************************)
(* C11: in every state that accepts an end tag, an end tag of another name *)
(* fails with the ExpectedEnd kind of error, which carries the end tag     *)
(* received and the end names acceptable there.                            *)
(***************************************************************************)
\* the end tag a position's handler accepts
EndNameOf(state) ==
    CASE state = "ParsingCoverage" -> "coverage"
      [] state = "ParsingSources" -> "sources"
      [] state = "ParsingSource" -> "source"
      [] state = "ParsingPackages" -> "packages"
      [] state = "ParsingPackage" -> "package"
      [] state = "ParsingClasses" -> "classes"
      [] state = "ParsingClass" -> "class"
      [] state = "ParsingMethods" -> "methods"
      [] state = "ParsingMethod" -> "method"
      [] state \in {"ParsingClassLines", "ParsingMethodLines"} -> "lines"
      [] state \in {"ParsingClassLine", "ParsingMethodLine"} -> "line"
      [] state \in {"ParsingClassLineConditions", "ParsingMethodLineConditions"} ->
            "conditions"
      [] OTHER -> ""

C11_EndMismatchIsExpectedEnd ==
    (Consumed /\ lastState \notin {"Unstarted", "End"} /\ lastEv.type = "End"
              /\ lastEv.name # EndNameOf(lastState)) =>
        /\ ret.poll = "ReadyErr"
        /\ ret.err.kind = "ExpectedEnd"
        /\ ret.err.got = [kind |-> "End", name |-> lastEv.name]
        /\ ret.err.expected = <<EndNameOf(lastState)>>

(***************************************************************************)
(* C12: the answer of every call of consume_event is the answer a fresh    *)
(* parser gives to the same event after the same accepted events: the same *)
(* Pending, the same failure, or the same completed document.              *)
(***************************************************************************)
Outcome(r) == [poll |-> r.poll, doc |-> r.doc, err |-> r.err]

Element(default, attrs, descs) == set_required_attributes(default, attrs, descs).obj

LineOf(event) == load_lines(DefaultLine, event).obj

IdealStart ==
    [coverage |-> DefaultCoverage, package |-> DefaultPackage, class |-> DefaultClass,
     method |-> DefaultMethod, line |-> DefaultLine, inMethod |-> FALSE]

\* the lines of a line's owner, extended by that line
Owned(s, line) ==
    IF s.inMethod THEN [s EXCEPT !.method.lines = Append(@, line)]
    ELSE [s EXCEPT !.class.lines = Append(@, line)]

IdealStep(s, e) ==
    CASE e.type = "Start" /\ e.name = "coverage" ->
            [s EXCEPT !.coverage = Element(DefaultCoverage, e.attrs, CoverageDescs)]
      [] e.type = "Start" /\ e.name = "package" ->
            [s EXCEPT !.package = Element(DefaultPackage, e.attrs, PackageDescs)]
      [] e.type = "End" /\ e.name = "package" ->
            [s EXCEPT !.coverage.packages = Append(@, s.package)]
      [] e.type = "Start" /\ e.name = "class" ->
            [s EXCEPT !.class = Element(DefaultClass, e.attrs, ClassDescs)]
      [] e.type = "End" /\ e.name = "class" ->
            [s EXCEPT !.package.classes = Append(@, s.class)]
      [] e.type = "Start" /\ e.name = "method" ->
            [s EXCEPT !.method = Element(DefaultMethod, e.attrs, MethodDescs),
                      !.inMethod = TRUE]
      [] e.type = "End" /\ e.name = "method" ->
            [s EXCEPT !.class.methods = Append(@, s.method), !.inMethod = FALSE]
      [] e.type = "Start" /\ e.name = "line" -> [s EXCEPT !.line = LineOf(e)]
      [] e.type = "End" /\ e.name = "line" -> Owned(s, s.line)
      [] e.type = "AttributesOnly" /\ e.name = "line" -> Owned(s, LineOf(e))
      [] e.type = "AttributesOnly" /\ e.name = "condition" ->
            [s EXCEPT !.line.conditions =
                          Append(@, Element(DefaultCondition, e.attrs, ConditionDescs))]
      [] OTHER -> s

RECURSIVE IdealFrom(_, _)
IdealFrom(s, log) ==
    IF log = <<>> THEN s ELSE IdealFrom(IdealStep(s, Head(log)), Tail(log))

Ideal(log) == IdealFrom(IdealStart, log)

\* the document in the parser's hands: the one handed out, or the one in progress
InHand ==
    IF ret.poll = "ReadyOk" THEN Unwrap(ret.doc)
    ELSE IF IsSome(inner) THEN Unwrap(inner).coverage
    ELSE DefaultCoverage

(***************************************************************************)
(* C13: at every point of a well-formed document the package sequence      *)
(* holds one Package per package element closed so far, in document order, *)
(* each with the attributes of its own tag; so a Package is appended       *)
(* exactly when its end tag is accepted, and the document handed out has   *)
(* one Package per package element.                                        *)
(***************************************************************************)
PackageHeads(packages) ==
    [i \in 1..Len(packages) |-> [packages[i] EXCEPT !.classes = <<>>]]

C13_PackagesInOrder ==
    PackageHeads(InHand.packages) = PackageHeads(Ideal(fed).coverage.packages)

C13_Witness ==
    /\ ret.poll = "ReadyOk"
    /\ Len(Unwrap(ret.doc).packages) = 2
    /\ Unwrap(ret.doc).packages[1].name = "p1"
    /\ Unwrap(ret.doc).packages[2].name = "p2"
    /\ Unwrap(ret.doc).packages[1].classes # <<>>
    /\ Unwrap(ret.doc).packages[2].classes # <<>>
    /\ Opened(fed, "package") = 2

(***************************************************************************)
(* C14: in the document handed out, the class sequence of every package    *)
(* holds exactly one Class per class element of that package, in document  *)
(* order, each with the attributes of its own tag.                         *)
(***************************************************************************)
ClassHeads(classes) ==
    [i \in 1..Len(classes) |-> [classes[i] EXCEPT !.methods = <<>>, !.lines = <<>>]]

SameClassHeads(got, ideal) ==
    /\ Len(got) = Len(ideal)
    /\ \A i \in 1..Len(got) :
          ClassHeads(got[i].classes) = ClassHeads(ideal[i].classes)

C14_ClassesPerPackage ==
    ret.poll = "ReadyOk" =>
        SameClassHeads(Unwrap(ret.doc).packages, Ideal(fed).coverage.packages)

(***************************************************************************)
(* C15: in the document handed out, the methods of every package, class    *)
(* after class, are exactly one Method per method element, in document     *)
(* order, each with the attributes of its own tag.                         *)
(***************************************************************************)
MethodHeads(methods) ==
    [i \in 1..Len(methods) |-> [methods[i] EXCEPT !.lines = <<>>]]

RECURSIVE MethodsOf(_)
MethodsOf(classes) ==
    IF classes = <<>> THEN <<>>
    ELSE MethodHeads(Head(classes).methods) \o MethodsOf(Tail(classes))

SameMethodHeads(got, ideal) ==
    /\ Len(got) = Len(ideal)
    /\ \A i \in 1..Len(got) :
          MethodsOf(got[i].classes) = MethodsOf(ideal[i].classes)

C15_MethodsPerClass ==
    ret.poll = "ReadyOk" =>
        SameMethodHeads(Unwrap(ret.doc).packages, Ideal(fed).coverage.packages)

(***************************************************************************)
(* C16: when the end tag of a lines container is accepted, the line        *)
(* sequence of the container's owner is the sequence it was when the       *)
(* container opened, followed by exactly one Line per line element of the  *)
(* container, in document order, whether the elements are self-closing or  *)
(* not.                                                                    *)
(***************************************************************************)
\* the accumulator after the accepted events of log
RECURSIVE AccumulatorAfter(_, _)
AccumulatorAfter(in, log) ==
    IF log = <<>> THEN in
    ELSE AccumulatorAfter(Parser_consume_event(in, Head(log)).inner, Tail(log))

\* the index of the last start tag named name in log, 0 when there is none
RECURSIVE LastStart(_, _)
LastStart(log, name) ==
    IF log = <<>> THEN 0
    ELSE IF log[Len(log)].type = "Start" /\ log[Len(log)].name = name THEN Len(log)
    ELSE LastStart(SubSeq(log, 1, Len(log) - 1), name)

\* the line sequence of the owner of the lines container the handler of state serves
OwnerLines(p, state) ==
    IF state \in {"ParsingMethodLines", "ParsingMethodLine", "ParsingMethodLineConditions"}
    THEN p.method.lines ELSE p.class.lines

\* the Lines the line elements of the innermost lines container describe
ContainerLines(log) ==
    IdealFrom(IdealStart, SubSeq(log, LastStart(log, "lines") + 1, Len(log))).class.lines

LineHeads(owned) ==
    [i \in 1..Len(owned) |-> [number |-> owned[i].number, hits |-> owned[i].hits]]

ContainerClosed ==
    /\ ret.call = "consume_event" /\ ret.poll = "Pending"
    /\ lastEv.type = "End" /\ lastEv.name = "lines"
    /\ lastState \in {"ParsingClassLines", "ParsingMethodLines"}

C16_LinesAppendedOnce ==
    ContainerClosed =>
        LineHeads(OwnerLines(Unwrap(inner), lastState)) =
            LineHeads(OwnerLines(Unwrap(AccumulatorAfter(None,
                                     SubSeq(fed, 1, LastStart(fed, "lines")))), lastState))
            \o LineHeads(ContainerLines(fed))

(***************************************************************************)
(* C17: when a lines container made of k >= 0 self-closing line tags and   *)
(* then one non-self-closing line holding a conditions block of m          *)
(* self-closing condition tags is closed, its owner has gained exactly the *)
(* k + 1 Lines of those tags, in document order, and the last of them has  *)
(* exactly the m Conditions of the block, with their type and coverage.    *)
(***************************************************************************)
\* the events between the start tag of the innermost lines container and the last event
Inside(log) == SubSeq(log, LastStart(log, "lines") + 1, Len(log) - 1)

Is(event, type, name) == event.type = type /\ event.name = name

\* c is k self-closing lines, then a line with a conditions block of self-closing conditions
LinesThenConditions(c, k) ==
    /\ Len(c) >= k + 4
    /\ \A i \in 1..k : Is(c[i], "AttributesOnly", "line")
    /\ Is(c[k + 1], "Start", "line")
    /\ Is(c[k + 2], "Start", "conditions")
    /\ \A i \in (k + 3)..(Len(c) - 2) : Is(c[i], "AttributesOnly", "condition")
    /\ Is(c[Len(c) - 1], "End", "conditions")
    /\ Is(c[Len(c)], "End", "line")

\* the k + 1 Lines of such a container
LinesOf(c, k) ==
    [i \in 1..k |-> LineOf(c[i])]
    \o << [LineOf(c[k + 1]) EXCEPT
              !.conditions = [j \in 1..(Len(c) - k - 4) |->
                                 Element(DefaultCondition, c[k + 2 + j].attrs,
                                         ConditionDescs)]] >>

\* the owner's lines when the innermost lines container opened
LinesAtOpen(log, state) ==
    OwnerLines(Unwrap(AccumulatorAfter(None, SubSeq(log, 1, LastStart(log, "lines")))),
               state)

C17_LinesThenConditions ==
    ContainerClosed =>
        \A k \in 0..Len(Inside(fed)) :
            LinesThenConditions(Inside(fed), k) =>
                OwnerLines(Unwrap(inner), lastState) =
                    LinesAtOpen(fed, lastState) \o LinesOf(Inside(fed), k)

C17_Witness ==
    /\ ContainerClosed
    /\ LinesThenConditions(Inside(fed), 1)
    /\ Len(Inside(fed)) = 6
    /\ Len(OwnerLines(Unwrap(inner), lastState)) = Len(LinesAtOpen(fed, lastState)) + 2
    /\ Len(OwnerLines(Unwrap(inner), lastState)[Len(OwnerLines(Unwrap(inner), lastState))]
               .conditions) = 1

(***************************************************************************)
(* C18: in ParsingPackages a self-closing package tag with valid           *)
(* attributes is accepted, and leaves the parser as the start tag with the *)
(* same attributes, a self-closing classes tag and the package end tag     *)
(* leave it: one more Package, with no classes.                            *)
(***************************************************************************)
Event(type, name, attrs) == [type |-> type, name |-> name, attrs |-> attrs, text |-> ""]

\* the long form of a self-closing package tag
PackageWithEmptyClasses(attrs) ==
    << Event("Start", "package", attrs),
       Event("AttributesOnly", "classes", <<>>),
       Event("End", "package", <<>>) >>

C18_SelfClosingPackage ==
    [][(/\ ret'.call = "consume_event"
        /\ Position(inner) = "ParsingPackages"
        /\ Is(lastEv', "AttributesOnly", "package")
        /\ ValidTag("package", lastEv'.attrs)) =>
           /\ ret'.poll = "Pending"
           /\ inner' = AccumulatorAfter(inner, PackageWithEmptyClasses(lastEv'.attrs))]_vars

(***************************************************************************)
(* C19: the Line a line tag without a branch attribute yields has branch   *)
(* false, whatever lines came before it: the Line a self-closing tag       *)
(* appends to its owner, and the Line a start tag loads into the slot.     *)
(***************************************************************************)
Last(s) == s[Len(s)]

LineAccepted(type) ==
    /\ ret.call = "consume_event" /\ ret.poll = "Pending"
    /\ lastState \in {"ParsingClassLines", "ParsingMethodLines"}
    /\ Is(lastEv, type, "line")

C19_BranchDefaultsFalse ==
    /\ (LineAccepted("AttributesOnly") /\ ~Present(lastEv.attrs, "branch")) =>
           Last(OwnerLines(Unwrap(inner), lastState)).branch = FALSE
    /\ (LineAccepted("Start") /\ ~Present(lastEv.attrs, "branch")) =>
           Unwrap(inner).line.branch = FALSE

(***************************************************************************)
(* C20: when a lines container whose last line element is not              *)
(* self-closing is closed, the Line appended for that element has exactly  *)
(* the Conditions of the condition tags nested in that element, in         *)
(* document order, and none of another line.                               *)
(***************************************************************************)
\* the lines container just closed ended with a non-self-closing line element
ClosedAfterOpenLine ==
    /\ ContainerClosed
    /\ Inside(fed) # <<>>
    /\ Is(Last(Inside(fed)), "End", "line")

C20_ConditionsOfOwnLine ==
    ClosedAfterOpenLine =>
        Last(OwnerLines(Unwrap(inner), lastState)).conditions =
            Last(ContainerLines(fed)).conditions

(***************************************************************************)
(* C21: when the end tag of a source element is accepted, the document's   *)
(* source sequence is the sequence it was when the element opened followed *)
(* by exactly one Source, which holds the element's text; a text accepted  *)
(* in ParsingSource stays in ParsingSource and the end tag returns to      *)
(* ParsingSources.                                                         *)
(***************************************************************************)
SourceClosed ==
    /\ ret.call = "consume_event" /\ ret.poll = "Pending"
    /\ lastState = "ParsingSource"
    /\ Is(lastEv, "End", "source")

\* the texts of the source element just closed
TextsOfSource(log) == SubSeq(log, LastStart(log, "source") + 1, Len(log) - 1)

\* the document's sources when the innermost source element opened
SourcesAtOpen(log) ==
    Unwrap(AccumulatorAfter(None, SubSeq(log, 1, LastStart(log, "source")))).coverage.sources

C21_OneSourcePerElement ==
    /\ SourceClosed =>
           /\ Position(inner) = "ParsingSources"
           /\ Len(Unwrap(inner).coverage.sources) = Len(SourcesAtOpen(fed)) + 1
           /\ Len(TextsOfSource(fed)) = 1 =>
                  Unwrap(inner).coverage.sources =
                      Append(SourcesAtOpen(fed), Source(TextsOfSource(fed)[1].text))
    /\ (ret.poll = "Pending" /\ lastState = "ParsingSource" /\ lastEv.type = "Text") =>
           Position(inner) = "ParsingSource"

(***************************************************************************)
(* C22: in ParsingCoverage a self-closing sources tag leads to             *)
(* ParsingSources and a self-closing packages tag to ParsingPackages, as   *)
(* the start tags of those names do.                                       *)
(***************************************************************************)
C22_SelfClosingSameMapping ==
    (/\ ret.call = "consume_event"
     /\ lastState = "ParsingCoverage"
     /\ lastEv.type = "AttributesOnly"
     /\ lastEv.name \in {"sources", "packages"}) =>
        /\ ret.poll = "Pending"
        /\ Position(inner) = (IF lastEv.name = "sources" THEN "ParsingSources"
                              ELSE "ParsingPackages")

\* C22, as the code has it: in ParsingCoverage a self-closing sources or
\* packages tag is accepted and leaves the machine in ParsingCoverage, the
\* element being closed already.
C22_SelfClosingStaysInCoverage ==
    (/\ ret.call = "consume_event"
     /\ lastState = "ParsingCoverage"
     /\ lastEv.type = "AttributesOnly"
     /\ lastEv.name \in {"sources", "packages"}) =>
        /\ ret.poll = "Pending"
        /\ Position(inner) = "ParsingCoverage"

C22_Witness ==
    /\ ret.call = "consume_event" /\ ret.poll = "Pending"
    /\ lastState = "ParsingCoverage"
    /\ Is(lastEv, "AttributesOnly", "sources")
    /\ Position(inner) = "ParsingCoverage"

(***************************************************************************)
(* C23: in ParsingMethod a self-closing lines tag is accepted and leaves   *)
(* the machine in ParsingMethod.                                           *)
(***************************************************************************)
C23_SelfClosingLinesInMethod ==
    (/\ ret.call = "consume_event"
     /\ lastState = "ParsingMethod"
     /\ Is(lastEv, "AttributesOnly", "lines")) =>
        /\ ret.poll = "Pending"
        /\ Position(inner) = "ParsingMethod"

(***************************************************************************)
(* C24: a self-closing classes tag in ParsingPackage, a self-closing       *)
(* methods or lines tag in ParsingClass and a self-closing conditions tag  *)
(* in ParsingClassLine or ParsingMethodLine are accepted and change        *)
(* nothing: the state, the document and the package, class, method and     *)
(* line in progress are what they were.                                    *)
(***************************************************************************)
\* a self-closing tag of a container the handler of state lets pass
SelfClosingContainer(state, event) ==
    /\ event.type = "AttributesOnly"
    /\ \/ state = "ParsingPackage" /\ event.name = "classes"
       \/ state = "ParsingClass" /\ event.name \in {"methods", "lines"}
       \/ state \in {"ParsingClassLine", "ParsingMethodLine"} /\ event.name = "conditions"

C24_SelfClosingContainerIsNoOp ==
    [][(ret'.call = "consume_event" /\ SelfClosingContainer(Position(inner), lastEv')) =>
           (ret'.poll = "Pending" /\ inner' = inner)]_vars

C24_Witness ==
    /\ ret.call = "consume_event" /\ ret.poll = "Pending"
    /\ lastState = "ParsingClassLine"
    /\ SelfClosingContainer(lastState, lastEv)
    /\ Position(inner) = "ParsingClassLine"
    /\ Unwrap(inner).line.number > 0

(***************************************************************************)
(* C25: from the moment the root start tag is accepted, the nine root      *)
(* attributes of the document in progress, and of the document handed out, *)
(* are the values the root tag declared, whatever packages, classes,       *)
(* methods and lines follow.                                               *)
(***************************************************************************)
RootOf(coverage) == [coverage EXCEPT !.sources = <<>>, !.packages = <<>>]

C25_RootAttributesKept ==
    (fed # <<>> /\ ret.poll \in {"Pending", "ReadyOk"}) =>
        RootOf(InHand) = RootOf(Element(DefaultCoverage, fed[1].attrs, CoverageDescs))

C25_Witness ==
    /\ ret.poll = "ReadyOk"
    /\ Len(Unwrap(ret.doc).packages) = 2
    /\ Unwrap(ret.doc).packages[1].classes # <<>>
    /\ Unwrap(ret.doc).packages[1].classes[1].lines # <<>>
    /\ Unwrap(ret.doc).line_rate = 5
    /\ Unwrap(ret.doc).version = "<1"

(***************************************************************************)
(* C26: a text that is not blank is accepted only in ParsingSource; in     *)
(* every other started state it fails with ExpectedStartOrEnd listing the  *)
(* start names and the end name the state accepts, and on an unstarted     *)
(* parser it fails with ExpectedStart listing coverage.                    *)
(***************************************************************************)
\* the tag names a position's handler accepts on a start or self-closing tag
StartNamesOf(state) ==
    CASE state = "ParsingCoverage" -> <<"sources", "packages">>
      [] state = "ParsingSources" -> <<"source">>
      [] state = "ParsingPackages" -> <<"package">>
      [] state = "ParsingPackage" -> <<"classes">>
      [] state = "ParsingClasses" -> <<"class">>
      [] state = "ParsingClass" -> <<"methods", "lines">>
      [] state = "ParsingMethods" -> <<"method">>
      [] state = "ParsingMethod" -> <<"lines">>
      [] state \in {"ParsingClassLines", "ParsingMethodLines"} -> <<"line">>
      [] state \in {"ParsingClassLine", "ParsingMethodLine"} -> <<"conditions">>
      [] state \in {"ParsingClassLineConditions", "ParsingMethodLineConditions"} ->
            <<"condition">>
      [] OTHER -> <<>>

C26_TextOnlyInSource ==
    (Consumed /\ lastEv.type = "Text") =>
        CASE lastState = "ParsingSource" -> ret.poll = "Pending"
          [] lastState = "Unstarted" ->
                /\ ret.poll = "ReadyErr"
                /\ ret.err.kind = "ExpectedStart"
                /\ ret.err.expected = <<"coverage">>
          [] OTHER ->
                /\ ret.poll = "ReadyErr"
                /\ ret.err.kind = "ExpectedStartOrEnd"
                /\ ret.err.expected = StartNamesOf(lastState)
                /\ ret.err.expected_ends = <<EndNameOf(lastState)>>

C26_Witness ==
    /\ Consumed /\ lastEv.type = "Text" /\ lastEv.text = "/src"
    /\ lastState = "ParsingClassLineConditions"
    /\ ret.poll = "ReadyErr"
    /\ ret.err.kind = "ExpectedStartOrEnd"
    /\ ret.err.expected = <<"condition">>
    /\ ret.err.expected_ends = <<"conditions">>

(***************************************************************************)
(* C27: the got field of every structural error tells the kind (start      *)
(* tag, end tag, self-closing tag or text) and the tag name of the event   *)
(* that was rejected.                                                      *)
(***************************************************************************)
StructuralKinds == {"ExpectedStart", "ExpectedEnd", "ExpectedStartOrEnd"}

\* the kind and name of an event, a self-closing tag being of a kind of its own
Received(event) ==
    [kind |-> (IF event.type = "AttributesOnly" THEN "Empty" ELSE event.type),
     name |-> event.name]

C27_GotNamesTheEvent ==
    (Consumed /\ ret.poll = "ReadyErr" /\ ret.err.kind \in StructuralKinds) =>
        ret.err.got = Received(lastEv)

(***************************************************************************)
(* C28: whenever a tag's attributes are read, reading the same attributes  *)
(* in another order has the same outcome: the same bound values on         *)
(* success, the same kind of error naming the same attribute on failure.   *)
(***************************************************************************)
\* the extraction a tag of its name goes through, from a default entity
Extraction(event) ==
    CASE event.name = "coverage" ->
            set_required_attributes(DefaultCoverage, event.attrs, CoverageDescs)
      [] event.name = "package" ->
            set_required_attributes(DefaultPackage, event.attrs, PackageDescs)
      [] event.name = "class" ->
            set_required_attributes(DefaultClass, event.attrs, ClassDescs)
      [] event.name = "method" ->
            set_required_attributes(DefaultMethod, event.attrs, MethodDescs)
      [] event.name = "line" -> load_lines(DefaultLine, event)
      [] OTHER -> set_required_attributes(DefaultCondition, event.attrs, ConditionDescs)

\* the bound values of a successful extraction, the error of a failed one
Extracted(r) ==
    IF r.tag = "ok" THEN [tag |-> "ok", obj |-> <<r.obj>>, err |-> NoError]
    ELSE [tag |-> r.tag, obj |-> <<>>, err |-> r.err]

\* s with its i-th and j-th entries exchanged
Swap(s, i, j) == [s EXCEPT ![i] = s[j], ![j] = s[i]]

AttributesRead ==
    /\ Consumed
    /\ ReadsAttributes(lastState, IF lastEv.type = "AttributesOnly" THEN "AttributesOnly"
                                  ELSE lastEv.type, lastEv.name)

C28_ScanOrderIrrelevant ==
    AttributesRead =>
        \A i, j \in 1..Len(lastEv.attrs) :
            Extracted(Extraction([lastEv EXCEPT !.attrs = Swap(lastEv.attrs, i, j)])) =
                Extracted(Extraction(lastEv))

(***************************************************************************)
(* C29: declarations, comments and blank texts inserted anywhere in a      *)
(* token stream do not change what parse does: it returns the same         *)
(* document or the same error, and leaves the same accumulator, as on the  *)
(* stream without them.                                                    *)
(***************************************************************************)
C29_InsertionsIgnored ==
    [][ret'.call = "parse" =>
          LET Compared(r) ==
                  /\ Outcome(ret') = Outcome(Returned("parse", r.res))
                  /\ inner' = Survives(r.res, r.inner)
          IN Compared(ParseFresh[fed'])]_vars

C29_Witness ==
    /\ ret.call = "parse" /\ ret.poll = "ReadyOk"
    /\ fed = ClassLineDocument
    /\ lastEv = Comment
    /\ Len(Unwrap(ret.doc).packages) = 1

(***************************************************************************)
(* C30: after any sequence of accepted events, the state is the schema     *)
(* position of the innermost element still open, every end tag accepted    *)
(* closes the element opened last among those still open, and a document   *)
(* is handed out only when no element is open.                             *)
(***************************************************************************)
\* the names of the elements a log leaves open, the innermost last
RECURSIVE OpenElements(_)
OpenElements(log) ==
    IF log = <<>> THEN <<>>
    ELSE LET Stepped(open, event) ==
                 CASE event.type = "Start" -> Append(open, event.name)
                   [] event.type = "End" ->
                         IF open = <<>> THEN <<>> ELSE SubSeq(open, 1, Len(open) - 1)
                   [] OTHER -> open
         IN Stepped(OpenElements(SubSeq(log, 1, Len(log) - 1)), log[Len(log)])

\* the state of the schema position whose innermost open element is the last of open
SchemaPosition(open) ==
    LET InMethod == \E i \in 1..Len(open) : open[i] = "method"
        At(name) ==
            CASE name = "coverage" -> "ParsingCoverage"
              [] name = "sources" -> "ParsingSources"
              [] name = "source" -> "ParsingSource"
              [] name = "packages" -> "ParsingPackages"
              [] name = "package" -> "ParsingPackage"
              [] name = "classes" -> "ParsingClasses"
              [] name = "class" -> "ParsingClass"
              [] name = "methods" -> "ParsingMethods"
              [] name = "method" -> "ParsingMethod"
              [] name = "lines" ->
                    IF InMethod THEN "ParsingMethodLines" ELSE "ParsingClassLines"
              [] name = "line" ->
                    IF InMethod THEN "ParsingMethodLine" ELSE "ParsingClassLine"
              [] name = "conditions" ->
                    IF InMethod THEN "ParsingMethodLineConditions"
                    ELSE "ParsingClassLineConditions"
              [] OTHER -> "none"
    IN IF open = <<>> THEN "Unstarted" ELSE At(Last(open))

C30_WellNested ==
    /\ ret.poll = "Pending" => Position(inner) = SchemaPosition(OpenElements(fed))
    /\ (ret.poll \in {"Pending", "ReadyOk"} /\ lastEv.type = "End") =>
           /\ OpenElements(SubSeq(fed, 1, Len(fed) - 1)) # <<>>
           /\ lastEv.name = Last(OpenElements(SubSeq(fed, 1, Len(fed) - 1)))
    /\ ret.poll = "ReadyOk" => OpenElements(fed) = <<>>

C30_Witness ==
    /\ ret.poll = "Pending"
    /\ Is(lastEv, "End", "conditions")
    /\ Position(inner) = "ParsingMethodLine"
    /\ OpenElements(fed) = <<"coverage", "packages", "package", "classes", "class",
                             "methods", "method", "lines", "line">>

(***************************************************************************)
(* C31: no call of consume_event finds an accumulator in state End: the    *)
(* accumulator is removed by the call that moves it there, so no call      *)
(* through the facade panics with 'Consuming more after end event.'.       *)
(***************************************************************************)
C31_EndNeverKept ==
    /\ IsSome(inner) => Unwrap(inner).state # "End"
    /\ ret.call = "consume_event" => ret.poll # "Panic"

C31_Witness ==
    /\ ret.call = "consume_event" /\ ret.poll = "ReadyOk"
    /\ lastState = "ParsingCoverage"
    /\ Is(lastEv, "End", "coverage")
    /\ inner = None
    /\ served

(***************************************************************************)
(* C32: a classes, methods or lines container whose start tag is followed  *)
(* at once by its end tag appends nothing: the package's classes, the      *)
(* class's methods or the owner's lines are what they were before the      *)
(* start tag.                                                              *)
(***************************************************************************)
\* the sequence of the enclosing entity that a container named name fills
Enclosing(p, name, state) ==
    CASE name = "classes" -> p.package.classes
      [] name = "methods" -> p.class.methods
      [] OTHER -> OwnerLines(p, state)

\* the last two events open and close a container with nothing in between
EmptyContainerClosed ==
    /\ ret.call = "consume_event" /\ ret.poll = "Pending"
    /\ Len(fed) >= 2
    /\ lastEv.type = "End" /\ lastEv.name \in {"classes", "methods", "lines"}
    /\ Is(fed[Len(fed) - 1], "Start", lastEv.name)

C32_EmptyContainerAppendsNothing ==
    EmptyContainerClosed =>
        Enclosing(Unwrap(inner), lastEv.name, lastState) =
            Enclosing(Unwrap(AccumulatorAfter(None, SubSeq(fed, 1, Len(fed) - 2))),
                      lastEv.name, lastState)

(***************************************************************************)
(* C34: a condition tag that carries a number attribute yields a Condition *)
(* with that number: the Condition appended for the tag has the value of   *)
(* the attribute in its number field.                                      *)
(***************************************************************************)
\* the last call accepted a condition tag that carries a number
NumberedConditionAccepted ==
    /\ ret.call = "consume_event" /\ ret.poll = "Pending"
    /\ lastState \in {"ParsingClassLineConditions", "ParsingMethodLineConditions"}
    /\ Is(lastEv, "AttributesOnly", "condition")
    /\ Present(lastEv.attrs, "number")

C34_ConditionNumberKept ==
    NumberedConditionAccepted =>
        \E i \in 1..Len(lastEv.attrs) :
            /\ lastEv.attrs[i].key = "number"
            /\ ParseUint(lastEv.attrs[i].value) =
                   Some(Last(Unwrap(inner).line.conditions).number)

(***************************************************************************)
(* C35: whenever the machine awaits a new child in a container state       *)
(* (ParsingPackages, ParsingClasses, ParsingMethods, ParsingClassLines,    *)
(* ParsingMethodLines), the slot of that child kind (package, class,       *)
(* method, line) is the default empty entity.                              *)
(***************************************************************************)
\* the in-progress slot of the child kind a container state awaits
AwaitedSlot(p) ==
    CASE p.state = "ParsingPackages" -> <<p.package, DefaultPackage>>
      [] p.state = "ParsingClasses" -> <<p.class, DefaultClass>>
      [] p.state = "ParsingMethods" -> <<p.method, DefaultMethod>>
      [] p.state \in {"ParsingClassLines", "ParsingMethodLines"} -> <<p.line, DefaultLine>>
      [] OTHER -> <<>>

C35_SlotHygiene ==
    (IsSome(inner) /\ AwaitedSlot(Unwrap(inner)) # <<>>) =>
        AwaitedSlot(Unwrap(inner))[1] = AwaitedSlot(Unwrap(inner))[2]

(***************************************************************************)
(* Parser::parse step by step.  In this specification fed is the input the *)
(* reader has not yet yielded, ret is [call |-> "parse", poll |->          *)
(* "Pending"] while the loop runs, lastEv is the token of the last         *)
(* iteration and lastState the position it found.                          *)
(***************************************************************************)
\* a root tag whose version attribute holds an entity the unescaping does not know
BadEntityDocument ==
    << Decl, Tag("Start", "coverage", Replace(CoverageAttrs("1"), 8, "&bad;")),
       Plain("Empty", "packages"), Plain("End", "coverage") >>

\* the inputs of the stepwise parse
ParseStreams == Streams \cup {BadEntityDocument}

InLoop == ret.call = "parse" /\ ret.poll = "Pending"

\* the call of Parser::parse on a new parser, up to the head of its loop
ParseCalled ==
    /\ ret = NoCall
    /\ \E stream \in ParseStreams : fed' = stream
    /\ ret' = Returned("parse", Pending)
    /\ UNCHANGED <<inner, lastEv, lastState, served>>

\* the accumulators and tokens the iterations of parse meet on a stream from place i
RECURSIVE Met(_, _, _)
Met(in, stream, i) ==
    LET Further(it) == IF it.done THEN {} ELSE Met(it.inner, stream, i + 1)
    IN {<<in, ReadEvent(stream, i)>>} \cup Further(ParseIteration(in, ReadEvent(stream, i)))

\* one iteration of the loop of Parser::parse, for each accumulator and token met
ParseIterations ==
    [met \in UNION {Met(None, stream, 1) : stream \in ParseStreams} |->
        ParseIteration(met[1], met[2])]

\* one iteration of the loop: read an event, return on Eof, skip what the
\* filter drops, hand the rest to consume_event and return when it is Ready
ParseLoop ==
    /\ InLoop
    /\ inner' = LET Kept(it) == IF it.done THEN Survives(it.res, it.inner) ELSE it.inner
                IN Kept(ParseIterations[<<inner, ReadEvent(fed, 1)>>])
    /\ ret' = LET Answered(it) == IF it.done THEN Returned("parse", it.res) ELSE ret
              IN Answered(ParseIterations[<<inner, ReadEvent(fed, 1)>>])
    /\ lastEv' = ReadEvent(fed, 1)
    /\ fed' = IF fed = <<>> THEN fed ELSE Tail(fed)
    /\ lastState' = Position(inner)
    /\ UNCHANGED served

NextParse == ParseCalled \/ ParseLoop

\* the loop is straight-line code: an iteration that can run does run
SpecParse == Init /\ [][NextParse]_vars /\ WF_vars(ParseLoop)

(***************************************************************************)
(* C33: parse terminates on every finite token stream: each iteration of   *)
(* its loop consumes one token, and the call eventually returns a          *)
(* completed document, a parser error or UnexpectedEof.                    *)
(***************************************************************************)
C33_ParseReturns ==
    InLoop ~> (ret.call = "parse" /\ ret.poll \in {"ReadyOk", "ReadyErr"})

\* the loop ends one way or another, the unwinding of a panic included
ParseEnds == InLoop ~> ~InLoop

\* an iteration takes exactly one token from an input that still has one
IterationConsumesOne == [][(InLoop /\ fed # <<>>) => fed' = Tail(fed)]_vars

====
